---- MODULE Spec2Model ----
(***************************************************************************)
(* A model of the DeFiCh indexer: the cindex run (src/cliindexer.rs), the  *)
(* transaction classifier it drives (src/dfiutils.rs, src/models.rs), the  *)
(* sqlite store it writes through (src/db/mod.rs), the graph builder       *)
(* (src/grapher.rs), the shortest-path query (src/spath.rs,                *)
(* src/gpath.rs), the graph walk (src/graphwalker.rs) and the log parser   *)
(* (src/logparse.rs).                                                      *)
(*                                                                         *)
(* Strings that the code takes apart (addresses, which are joined with and *)
(* split on '+', and matched by a regex) are sequences of one-character    *)
(* strings; the empty string is << >>.  Strings that are only compared     *)
(* (txids, hashes, type names, token ids) are TLA+ strings.  An f64 value  *)
(* is a natural number.  Option<T> is a record [some, v].                  *)
(***************************************************************************)
EXTENDS Integers, Sequences, FiniteSets, TLC

VARIABLES
    chain,      \* what the node answers: height -> block (hash, decodable, tx list)
    args,       \* CliIndexArgs: start_height, end_height
    quit,       \* the SIGINT flag
    pc,         \* position of run: start, drop, begin, loop, fetch, tx, commit, create, return, done
    idx,        \* position in the index catalog (drop loop and create loop)
    height,     \* the loop variable of the block loop
    txi,        \* position in block.tx of the block being processed
    err,        \* the deferred RPC error: Option
    result,     \* what run returned: [kind, err]
    disk,       \* the committed contents of the database file
    conn,       \* the contents as the open connection sees them (uncommitted writes included)
    inTx,       \* an outer write transaction is open on the connection
    indexes,    \* the secondary indexes that exist
    runNo,      \* 1 for the first run over the range, 2 for the re-run
    snap,       \* the committed contents when the first run returned
    hist,       \* history of the current run (milestones, where SIGINT and the RPC error hit)
    g,          \* gbuild: the graph built so far [nodes, edges]
    node_index_map, \* gbuild: address -> node index
    rows,       \* gbuild: the rows of the txs table, in the order the scan yields them
    txiter,     \* gbuild: rows the callback has taken
    gpc,        \* gbuild: scan, usr, clear, dump, result, done
    gquit,      \* gbuild: the SIGINT flag
    user_sig,   \* gbuild: the SIGUSR1 flag
    gres,       \* gbuild: what iter_txs returned
    files,      \* gbuild: the graph metadata and data files
    glog,       \* gbuild: the SIGUSR1 deliveries and the dumps, in the order they happened
    ptool,      \* spath or gpath
    pg,         \* spath/gpath: the loaded graph [nodes, edges]
    ptxs,       \* spath/gpath: the txs table, txid -> row
    psrc,       \* spath/gpath: the source address
    pdest,      \* spath/gpath: the destination address
    pquit,      \* spath/gpath: the SIGINT flag
    visit_next, \* astar: the binary heap, a set of [score, node, seq]
    scores,     \* astar: node -> cost from the start
    estimate_scores, \* astar: node -> estimate recorded at its visit
    predecessor,\* astar: the path tracker, node -> node it was reached from
    pushes,     \* astar: pushes made so far (tags heap entries)
    paths,      \* what astar returned: Option of the node path
    ppc,        \* spath/gpath: start, search, emit, done
    pres,       \* spath/gpath: what the tool returned
    emitted,    \* spath/gpath: the log lines emitted for the pair
    wg,         \* gwalk: the loaded graph [nodes, edges, index]
    waddr,      \* gwalk: args.addr, the center of the walk
    graph_ignore_addr_list, \* gwalk: the addresses not walked into
    wtxs,       \* gwalk: the txs table, txid -> row
    wquit,      \* gwalk: the SIGINT flag
    wpc,        \* gwalk: icx, center, level, node, end, done
    icx_scan,   \* gwalk: how the scan of the ICX rows ended
    level,      \* gwalk: the loop variable of the level loop
    visited,    \* gwalk: the nodes expanded
    current_level, \* gwalk: the nodes of the level being run
    next_level, \* gwalk: the targets pushed for the next level
    wpos,       \* gwalk: position in current_level
    total_icx,  \* gwalk: the sum of the ICX amounts met
    total_btc_swaps, \* gwalk: the sum of the btc swap amounts met
    wres,       \* gwalk: what run returned
    expanded,   \* gwalk: history, the nodes whose edges were iterated, in order
    log_lines,  \* logparse: the lines of the log file
    lineno,     \* logparse: the lines read so far
    combined_data, \* logparse: the LogEntryMap [data, icx_count, icx_calc_count, swap_count]
    lpc,        \* logparse: read, done
    lres,       \* logparse: what process_log_file returned
    fname,      \* a function called on its own: fold, extract, codec
    farg,       \* the argument it is called with
    fret        \* what the calls returned so far, in order

cindexVars == <<chain, args, quit, pc, idx, height, txi, err, result, disk, conn,
                inTx, indexes, runNo, snap, hist>>
gbuildVars == <<g, node_index_map, rows, txiter, gpc, gquit, user_sig, gres, files, glog>>
pathVars   == <<ptool, pg, ptxs, psrc, pdest, pquit, visit_next, scores, estimate_scores,
                predecessor, pushes, paths, ppc, pres, emitted>>
walkVars   == <<wg, waddr, graph_ignore_addr_list, wtxs, wquit, wpc, icx_scan, level,
                visited, current_level, next_level, wpos, total_icx, total_btc_swaps,
                wres, expanded>>
logVars    == <<log_lines, lineno, combined_data, lpc, lres>>
callVars   == <<fname, farg, fret>>
vars == <<cindexVars, gbuildVars, pathVars, walkVars, logVars, callVars>>

----------------------------------------------------------------------------
(* Strings and options *)

EmptyStr == << >>

Some(x) == [some |-> TRUE, v |-> x]

RangeOf(s) == {s[i] : i \in 1..Len(s)}

\* every ordering of a finite set: the orders in which a std HashMap or HashSet
\* (randomly seeded per instance) may yield its entries
Orderings(S) ==
    {s \in [1..Cardinality(S) -> S] : \A i, j \in 1..Cardinality(S) : s[i] = s[j] => i = j}

RECURSIVE JoinPlus(_)
\* addrs.join("+")
JoinPlus(addrs) ==
    IF Len(addrs) = 0 THEN EmptyStr
    ELSE IF Len(addrs) = 1 THEN addrs[1]
    ELSE addrs[1] \o <<"+">> \o JoinPlus(Tail(addrs))

RECURSIVE SplitFrom(_, _, _)
\* the parts of s[i..] split on '+', cur being the part collected so far
SplitFrom(s, i, cur) ==
    IF i > Len(s) THEN {cur}
    ELSE IF s[i] = "+" THEN {cur} \cup SplitFrom(s, i + 1, EmptyStr)
    ELSE SplitFrom(s, i + 1, Append(cur, s[i]))

\* addr.split('+') collected into a set
SplitPlus(s) == SplitFrom(s, 1, EmptyStr)

----------------------------------------------------------------------------
(* Address extractor: src/dfiutils.rs extract_all_dfi_addresses *)

Base58Chars ==
    {"1","2","3","4","5","6","7","8","9"}
    \cup {"A","B","C","D","E","F","G","H"} \cup {"J","K","L","M","N"}
    \cup {"P","Q","R","S","T","U","V","W","X","Y","Z"}
    \cup {"a","b","c","d","e","f","g","h","i","j","k"}
    \cup {"m","n","o","p","q","r","s","t","u","v","w","x","y","z"}

Bech32Chars ==
    {"q","p","z","r","y","9","x","8","g","f","2","t","v","d","w","0",
     "s","3","j","n","5","4","k","h","c","e","6","m","u","a","7","l"}

LegacyMin == 25
LegacyMax == 34
Bech32Min == 38
Bech32Max == 87

\* r1 with no upper bound on the length
IsLegacyAddrLoose(s) ==
    /\ Len(s) >= 1 + LegacyMin
    /\ s[1] \in {"d", "7", "8"}
    /\ \A i \in 2..Len(s) : s[i] \in Base58Chars

\* r1: (d|7|8)[1-9A-HJ-NP-Za-km-z]{25,34} between the quotes
IsLegacyAddr(s) ==
    /\ Len(s) >= 1 + LegacyMin
    /\ Len(s) <= 1 + LegacyMax
    /\ s[1] \in {"d", "7", "8"}
    /\ \A i \in 2..Len(s) : s[i] \in Base58Chars

\* r2: df1[qpzry9x8gf2tvdw0s3jn54khce6mua7l]{38,87} between the quotes
IsBech32Addr(s) ==
    /\ Len(s) >= 3 + Bech32Min
    /\ Len(s) <= 3 + Bech32Max
    /\ SubSeq(s, 1, 3) = <<"d", "f", "1">>
    /\ \A i \in 4..Len(s) : s[i] \in Bech32Chars

\* A haystack is the sequence of the runs of characters between its double quotes:
\* <<r0, r1, .., rn>> is the text r0 " r1 " .. " rn.  No run holds a quote, and neither
\* class admits one, so a match is a quote, a run that is an address, and the next quote.
IsAddress(s) == IsLegacyAddr(s) \/ IsBech32Addr(s)

RECURSIVE MatchesFrom(_, _)
\* captures_iter from the i-th quote on: the leftmost match, then the matches after
\* its closing quote
MatchesFrom(runs, i) ==
    IF i + 1 > Len(runs) - 1 THEN {}
    ELSE IF IsAddress(runs[i + 1]) THEN {runs[i + 1]} \cup MatchesFrom(runs, i + 2)
    ELSE MatchesFrom(runs, i + 1)

\* the matches with the quotes trimmed, collected into a HashSet
extract_all_dfi_addresses(json_haystack) == MatchesFrom(json_haystack, 1)

\* what stands between two string literals of a JSON text
Sep == <<":">>

RECURSIVE JsonText(_)
\* serde_json::to_string of a JSON value, as a haystack: its string literals (keys and
\* string values), each between quotes, with what separates them
JsonText(literals) ==
    IF literals = {} THEN <<Sep>>
    ELSE <<Sep, CHOOSE l \in literals : TRUE>>
            \o JsonText(literals \ {CHOOSE l \in literals : TRUE})

\* src/dfiutils.rs token_id_to_symbol_maybe
token_id_to_symbol_maybe(token_id) ==
    CASE token_id = "0" -> "dfi"
      [] token_id = "1" -> "eth"
      [] token_id = "2" -> "btc"
      [] token_id = "3" -> "usdt"
      [] token_id = "7" -> "doge"
      [] token_id = "9" -> "ltc"
      [] token_id = "11" -> "bch"
      [] token_id = "13" -> "usdc"
      [] token_id = "15" -> "dusd"
      [] OTHER -> token_id

----------------------------------------------------------------------------
(* TxType: src/models.rs *)

Known(variant) == [variant |-> variant, other |-> ""]
Other(m) == [variant |-> "Other", other |-> m]

\* the arms of impl From<&str> for TxType, in order
FromArms ==
    << <<"_", "Unknown">>, <<"cb", "Coinbase">>, <<"utxo", "Utxo">>,
       <<"CreateMasternode", "CreateMasternode">>,
       <<"ResignMasternode", "ResignMasternode">>,
       <<"PoolSwap", "PoolSwap">>, <<"CompositeSwap", "CompositeSwap">>,
       <<"AddPoolLiquidity", "AddPoolLiquidity">>,
       <<"RemovePoolLiquidity", "RemovePoolLiquidity">>,
       <<"UtxosToAccount", "UtxosToAccount">>,
       <<"AccountToUtxos", "AccountToUtxos">>,
       <<"AccountToAccount", "AccountToAccount">>,
       <<"WithdrawFromVault", "WithdrawFromVault">>,
       <<"SetOracleData", "SetOracleData">>,
       <<"DepositToVault", "DepositToVault">>,
       <<"PaybackLoan", "PaybackLoan">>, <<"TakeLoan", "TakeLoan">>,
       <<"AutoAuth", "AutoAuth">>, <<"Vault", "Vault">>,
       <<"AnyAccountsToAccounts", "AnyAccountsToAccounts">>,
       <<"ICXCreateOrder", "ICXCreateOrder">>,
       <<"ICXMakeOffer", "ICXMakeOffer">>,
       <<"ICXSubmitDFCHTLC", "ICXSubmitDFCHTLC">>,
       <<"ICXSubmitEXTHTLC", "ICXSubmitEXTHTLC">>,
       <<"ICXClaimDFCHTLC", "ICXClaimDFCHTLC">>,
       <<"ICXCloseOrder", "ICXCloseOrder">>,
       <<"ICXCloseOffer", "ICXCloseOffer">> >>

\* the arms of impl Display for TxType, in order: variant, short code
DisplayArms ==
    << <<"Unknown", "_">>, <<"Coinbase", "cb">>, <<"Utxo", "u">>,
       <<"AutoAuth", "au">>, <<"UtxosToAccount", "+a">>,
       <<"AccountToUtxos", "-a">>, <<"AccountToAccount", "aa">>,
       <<"AnyAccountsToAccounts", "ax">>, <<"CreateMasternode", "+m">>,
       <<"ResignMasternode", "-m">>, <<"PoolSwap", "ps">>,
       <<"CompositeSwap", "cs">>, <<"AddPoolLiquidity", "+p">>,
       <<"RemovePoolLiquidity", "-p">>, <<"WithdrawFromVault", "v-">>,
       <<"DepositToVault", "v+">>, <<"PaybackLoan", "l-">>,
       <<"TakeLoan", "l+">>, <<"Vault", "vn">>, <<"SetOracleData", "+o">>,
       <<"ICXCreateOrder", "icx-start">>, <<"ICXMakeOffer", "icx-of">>,
       <<"ICXSubmitDFCHTLC", "icx-sdfc">>, <<"ICXSubmitEXTHTLC", "icx-sbtc">>,
       <<"ICXClaimDFCHTLC", "icx-claim">>, <<"ICXCloseOrder", "icx-endor">>,
       <<"ICXCloseOffer", "icx-endof">> >>

\* a match over string arms: the second component of the first arm whose first
\* component is key
FirstArm(arms, key) ==
    arms[CHOOSE i \in 1..Len(arms) :
            /\ arms[i][1] = key
            /\ \A j \in 1..(i - 1) : arms[j][1] # key][2]

HasArm(arms, key) == \E i \in 1..Len(arms) : arms[i][1] = key

\* impl From<&str> for TxType
TxTypeFrom(value) ==
    IF HasArm(FromArms, value) THEN Known(FirstArm(FromArms, value)) ELSE Other(value)

\* impl Display for TxType (to_string)
TxTypeToString(t) ==
    IF t.variant = "Other" THEN t.other ELSE FirstArm(DisplayArms, t.variant)

\* the short code read as the node's type name
TxTypeFromDisplayByName(s) == TxTypeFrom(s)

\* TxType::from_display: the arms are those of Display, short code first
TxTypeFromDisplay(s) ==
    IF \E i \in 1..Len(DisplayArms) : DisplayArms[i][2] = s
    THEN Known(DisplayArms[CHOOSE i \in 1..Len(DisplayArms) :
                              /\ DisplayArms[i][2] = s
                              /\ \A j \in 1..(i - 1) : DisplayArms[j][2] # s][1])
    ELSE Other(s)

----------------------------------------------------------------------------
(* The chain data the node serves: src/models.rs Block, Transaction, Vin, Vout *)

CommitEvery == 10000
DefaultEnd == 2000000

\* heights Base .. Base + TipOffset exist on the chain; Base + 1 is a commit height
TipOffset == 2
Base == CommitEvery - 1
Tip == Base + TipOffset

Addr(c) == <<"d">> \o [i \in 1..LegacyMin |-> c]
AddrA == Addr("A")
AddrB == Addr("B")
AddrC == Addr("C")
AddrG == Addr("G")
\* a bech32 address of the shortest admitted length
AddrH == <<"d", "f", "1">> \o [i \in 1..Bech32Min |-> "q"]
\* a literal one character longer than the longest legacy address
TooLong == <<"8">> \o [i \in 1..(LegacyMax + 1) |-> "a"]
\* the sentinel of a vout without addresses
X == <<"x">>

NoAddrs == [some |-> FALSE, v |-> << >>]
NoMsg == [fields |-> << >>, toks |-> << >>, nums |-> << >>, lits |-> {}]
NoVm == [some |-> FALSE, v |-> [txtype |-> "", msg |-> NoMsg]]
Vm(txtype, msg) == Some([txtype |-> txtype, msg |-> msg])

VinCoinbase == [coinbase |-> TRUE, txid |-> <<"", 0>>, vout |-> 0]
VinStandard(txid, n) == [coinbase |-> FALSE, txid |-> txid, vout |-> n]
Vout(n, value, addrs) == [n |-> n, value |-> value, addresses |-> Some(addrs)]
VoutNoAddr(n, value) == [n |-> n, value |-> value, addresses |-> NoAddrs]
Tx(txid, vin, vout, vm) == [txid |-> txid, vin |-> vin, vout |-> vout, vm |-> vm]

\* the coinbase transaction of the block at offset k; the first one pays a
\* multi-sig output
CbTx(k) ==
    IF k = 0
    THEN Tx(<<"cb", 0>>, <<VinCoinbase>>,
            <<Vout(0, 5, <<AddrA, AddrB>>), VoutNoAddr(1, 0)>>, NoVm)
    ELSE Tx(<<"cb", k>>, <<VinCoinbase>>, <<Vout(0, 3, <<AddrG>>), VoutNoAddr(1, 0)>>, NoVm)

\* a plain transfer with two inputs (the multi-sig output and G), two outputs to C
\* and an address-less output
TxTransfer ==
    Tx(<<"u", 1>>, <<VinStandard(<<"cb", 0>>, 0), VinStandard(<<"cb", 1>>, 0)>>,
       <<Vout(0, 6, <<AddrC>>), VoutNoAddr(1, 1), Vout(2, 1, <<AddrC>>)>>, NoVm)
\* an input that spends a transaction the node never served
TxUnknownPrev ==
    Tx(<<"bad", 1>>, <<VinStandard(<<"zz", 0>>, 0)>>, <<Vout(0, 1, <<AddrC>>)>>, NoVm)
\* an account transfer whose message names its sender (also the utxo input) and receiver
TxAccount ==
    Tx(<<"d", 1>>, <<VinStandard(<<"cb", 1>>, 0)>>, <<Vout(0, 3, <<AddrC>>)>>,
       Vm("AccountToAccount",
          [fields |-> [from |-> AddrG], toks |-> << >>, nums |-> << >>,
           lits |-> {AddrC, TooLong}]))
\* a transaction with inputs whose vm.txtype is the literal "cb"; its message names
\* the address of its input
TxTypedCb ==
    Tx(<<"w", 1>>, <<VinStandard(<<"cb", 1>>, 0)>>, <<Vout(0, 3, <<AddrC>>)>>,
       Vm("cb", [fields |-> << >>, toks |-> << >>, nums |-> << >>, lits |-> {AddrG}]))
TxPoolSwap ==
    Tx(<<"ps", 2>>, <<VinStandard(<<"cb", 2>>, 0)>>, <<Vout(0, 3, <<AddrG>>)>>,
       Vm("PoolSwap",
          [fields |-> [fromAddress |-> AddrG, toAddress |-> AddrH],
           toks |-> [fromToken |-> "0", toToken |-> "2"],
           nums |-> [fromAmount |-> 9], lits |-> {}]))
\* a PoolSwap whose message lacks fromAmount
TxPoolSwapBad ==
    Tx(<<"psbad", 2>>, <<VinStandard(<<"cb", 2>>, 0)>>, <<Vout(0, 3, <<AddrG>>)>>,
       Vm("PoolSwap",
          [fields |-> [fromAddress |-> AddrG, toAddress |-> AddrH],
           toks |-> [fromToken |-> "0", toToken |-> "2"],
           nums |-> << >>, lits |-> {}]))
\* an ICX claim spending the multi-sig output
TxIcxClaim ==
    Tx(<<"icx", 2>>, <<VinStandard(<<"cb", 0>>, 0)>>, <<Vout(0, 1, <<AddrC>>)>>,
       Vm("ICXClaimDFCHTLC", NoMsg))
\* an ICX claim the log has a swap line for but no ICX line
TxIcxSwapOnly ==
    Tx(<<"icxs", 2>>, <<VinStandard(<<"cb", 2>>, 0)>>, <<Vout(0, 1, <<AddrC>>)>>,
       Vm("ICXClaimDFCHTLC", NoMsg))
\* an ICX claim the log does not mention
TxIcxUnlogged ==
    Tx(<<"icxu", 2>>, <<VinStandard(<<"cb", 2>>, 0)>>, <<Vout(0, 1, <<AddrC>>)>>,
       Vm("ICXClaimDFCHTLC", NoMsg))
\* an input that spends an output without addresses
TxNoAddrPrev ==
    Tx(<<"nov", 2>>, <<VinStandard(<<"cb", 2>>, 1)>>, <<Vout(0, 1, <<AddrC>>)>>, NoVm)

\* a coinbase-like transaction whose only output has no address
TxNoAddrOnly ==
    Tx(<<"nul", 1>>, <<VinCoinbase>>, <<VoutNoAddr(0, 0)>>, NoVm)

BlockOf(k, variant, decodable, txs) ==
    [hash |-> <<"hash", k, variant>>, decodable |-> decodable, tx |-> txs]

\* the blocks the node may serve at offset k
Menu(k) ==
    CASE k = 0 -> {BlockOf(0, "a", TRUE, <<CbTx(0)>>)}
      [] k = 1 -> {BlockOf(1, "a", TRUE, <<CbTx(1), TxTransfer>>),
                   BlockOf(1, "b", TRUE, <<CbTx(1), TxUnknownPrev>>),
                   BlockOf(1, "c", TRUE, <<CbTx(1), TxAccount>>),
                   BlockOf(1, "d", TRUE, <<CbTx(1), TxTypedCb>>),
                   BlockOf(1, "e", TRUE, <<CbTx(1), TxNoAddrOnly>>)}
      [] k = 2 -> {BlockOf(2, "a", TRUE, <<CbTx(2), TxPoolSwap>>),
                   BlockOf(2, "b", TRUE, <<CbTx(2), TxPoolSwapBad>>),
                   BlockOf(2, "c", FALSE, << >>),
                   BlockOf(2, "d", TRUE, <<CbTx(2), TxIcxClaim, TxIcxSwapOnly, TxIcxUnlogged,
                                         TxPoolSwap>>),
                   BlockOf(2, "e", TRUE, <<CbTx(2), TxNoAddrPrev>>)}
      [] OTHER -> {BlockOf(k, "a", TRUE, <<CbTx(k)>>)}

Chains == {c \in [Base..Tip -> UNION {Menu(k) : k \in 0..TipOffset}] :
              \A h \in Base..Tip : c[h] \in Menu(h - Base)}

\* the LogEntry map process_log_file built (src/logparse.rs), by txid
NoIcx == [some |-> FALSE,
          v |-> [order_tx |-> "", offer_tx |-> "", dfchtlc_tx |-> "", claim_tx |-> "",
                 address |-> EmptyStr, amount |-> EmptyStr]]
IcxLine(address) ==
    Some([order_tx |-> "O", offer_tx |-> "Of", dfchtlc_tx |-> "D", claim_tx |-> "T",
          address |-> address, amount |-> <<"0", ".", "1">>])
\* the log has ICX lines for the ICX claim and for the account transfer, and swap
\* lines only for the pool swap and for another ICX claim
LogEntries ==
    [t \in {<<"icx", 2>>, <<"d", 1>>, <<"ps", 2>>, <<"icxs", 2>>} |->
        CASE t = <<"icx", 2>> -> [icx_data |-> IcxLine(AddrB)]
          [] t = <<"d", 1>> -> [icx_data |-> IcxLine(AddrH)]
          [] OTHER -> [icx_data |-> NoIcx]]

----------------------------------------------------------------------------
(* The store: src/db/mod.rs *)

\* the index names of sqlite_create_index_factory_v2, in catalog order
IndexCatalog ==
    <<"idx_txs_height", "idx_txs_tx_type", "idx_txs_icx_addr", "idx_txs_swap_from",
      "idx_txs_swap_to", "idx_tx_addr_graph_txid", "idx_tx_addr_graph_in_addr",
      "idx_tx_addr_graph_out_addr">>

\* the three tables; written is the set of heights whose block row the current run
\* wrote (it is committed and rolled back with the rows)
EmptyDb == [blocks |-> {}, txs |-> {}, edges |-> {}, written |-> {}]

\* stmts[0]: insert or replace into blocks; height is the primary key, hash is UNIQUE,
\* and REPLACE deletes every row that conflicts on either
InsertBlock(db, h, hash, data) ==
    [db EXCEPT
        !.blocks = {b \in @ : b.height # h /\ b.hash # hash}
                      \cup {[height |-> h, hash |-> hash, data |-> data]},
        !.written = @ \cup {h}]

\* stmts[1]: insert or replace into txs; txid is the primary key
InsertTx(db, row) ==
    [db EXCEPT !.txs = {r \in @ : r.txid # row.txid} \cup {row}]

MaxRowid(edges) ==
    IF edges = {} THEN 0
    ELSE CHOOSE m \in {e.rowid : e \in edges} : \A e \in edges : e.rowid <= m

\* a plain insert that leaves the conflicting row in place
InsertEdgeKeeping(db, txid, in_addr, out_addr, c_flags) ==
    [db EXCEPT
        !.edges = @ \cup {[rowid |-> MaxRowid(@) + 1, txid |-> txid, in_addr |-> in_addr,
                           out_addr |-> out_addr, c_flags |-> c_flags]}]

\* stmts[2]: insert or replace into tx_addr_graph; rowid is the integer primary key
\* (sqlite picks the largest rowid of the table plus one), (txid, in_addr, out_addr)
\* is UNIQUE and REPLACE deletes the row that conflicts on it
InsertEdge(db, txid, in_addr, out_addr, c_flags) ==
    [db EXCEPT
        !.edges = {e \in @ : ~(e.txid = txid /\ e.in_addr = in_addr /\ e.out_addr = out_addr)}
                     \cup {[rowid |-> MaxRowid(@) + 1, txid |-> txid, in_addr |-> in_addr,
                            out_addr |-> out_addr, c_flags |-> c_flags]}]

\* serde_json::to_string of a Transaction, and serde_json::from_str of it
TxToJson(tx) == [json |-> "Transaction", of |-> tx]
TxFromJson(data) == data.of

\* SqliteBlockStore::get_tx_from_hash: SELECT data FROM txs WHERE txid = ?1
get_tx_from_hash(db, hash) ==
    IF \E r \in db.txs : r.txid = hash
    THEN Some(TxFromJson((CHOOSE r \in db.txs : r.txid = hash).data))
    ELSE [some |-> FALSE, v |-> Tx(hash, << >>, << >>, NoVm)]

\* sqlite_commit_tx: what the connection sees becomes the committed contents
Commit(cn) == cn

\* the connection is closed with a transaction open: sqlite rolls it back
Rollback(dk) == dk

----------------------------------------------------------------------------
(* The transaction classifier: src/dfiutils.rs and the body of the tx loop of
   src/cliindexer.rs *)

Fail(e) == [ok |-> FALSE, err |-> e, v |-> << >>]
Okay(x) == [ok |-> TRUE, err |-> "", v |-> x]

\* the closure map_fn of get_txin_addr_val_list
\* the address key and value of the utxo an input spends
UtxoAddrVal(utxo) ==
    IF utxo.addresses.some
    THEN IF Len(utxo.addresses.v) = 1
         THEN Okay(<<utxo.addresses.v[1], utxo.value>>)
         ELSE Okay(<<JoinPlus(utxo.addresses.v), utxo.value>>)
    ELSE Fail("input with no addr found")

\* tx.vout.iter().find(|v| v.n == n)
FindVout(vout, n) ==
    IF \E i \in 1..Len(vout) : vout[i].n = n
    THEN Some(vout[CHOOSE i \in 1..Len(vout) :
                      /\ vout[i].n = n
                      /\ \A j \in 1..(i - 1) : vout[j].n # n])
    ELSE [some |-> FALSE, v |-> VoutNoAddr(n, 0)]

MapVinFound(tx, utxo) ==
    IF ~tx.some THEN Fail("tx hash not found")
    ELSE IF ~utxo.some THEN Fail("tx vout not found")
    ELSE UtxoAddrVal(utxo.v)

\* the closure map_fn of get_txin_addr_val_list
MapVin(x, db) ==
    MapVinFound(get_tx_from_hash(db, x.txid),
                FindVout(get_tx_from_hash(db, x.txid).v.vout, x.vout))

RECURSIVE TxinFrom(_, _, _)
TxinFrom(tx_ins, i, db) ==
    IF i > Len(tx_ins) THEN Okay(<< >>)
    ELSE IF tx_ins[i].coinbase THEN TxinFrom(tx_ins, i + 1, db)
    ELSE LET r == MapVin(tx_ins[i], db) IN
         IF ~r.ok THEN r
         ELSE LET rest == TxinFrom(tx_ins, i + 1, db) IN
              IF ~rest.ok THEN rest ELSE Okay(<<r.v>> \o rest.v)

\* the standard vins that do not resolve are dropped instead of failing the list
RECURSIVE TxinFromSkipping(_, _, _)
TxinFromSkipping(tx_ins, i, db) ==
    IF i > Len(tx_ins) THEN Okay(<< >>)
    ELSE LET rest == TxinFromSkipping(tx_ins, i + 1, db) IN
         IF tx_ins[i].coinbase \/ ~MapVin(tx_ins[i], db).ok THEN rest
         ELSE Okay(<<MapVin(tx_ins[i], db).v>> \o rest.v)

get_txin_addr_val_list_skipping(tx_ins, db) == TxinFromSkipping(tx_ins, 1, db)

\* get_txin_addr_val_list: the standard vins, each resolved, the first failure returned
get_txin_addr_val_list(tx_ins, db) == TxinFrom(tx_ins, 1, db)

\* get_txout_addr_val_list
get_txout_addr_val_list(tx_outs) ==
    [i \in 1..Len(tx_outs) |->
        <<IF tx_outs[i].addresses.some THEN JoinPlus(tx_outs[i].addresses.v) ELSE X,
          tx_outs[i].value>>]

\* the entry of the address set to the value
FoldEntryInserting(m, v) ==
    IF v[1] \in DOMAIN m THEN [m EXCEPT ![v[1]] = v[2]] ELSE m @@ (v[1] :> v[2])

\* m.entry(v.0).and_modify(|x| *x += v.1).or_insert(v.1)
FoldEntry(m, v) ==
    IF v[1] \in DOMAIN m THEN [m EXCEPT ![v[1]] = @ + v[2]] ELSE m @@ (v[1] :> v[2])

RECURSIVE FoldFrom(_, _, _)
FoldFrom(list, i, m) ==
    IF i > Len(list) THEN m ELSE FoldFrom(list, i + 1, FoldEntry(m, list[i]))

\* fold_addr_val_map: entry(addr).and_modify(+= val).or_insert(val), in list order
fold_addr_val_map(addr_val_list) == FoldFrom(addr_val_list, 1, << >>)

\* serde_json::from_value::<PoolSwapMsg>: every field of the struct must be there
PoolSwapMsgDecodes(msg) ==
    /\ {"fromAddress", "toAddress"} \subseteq DOMAIN msg.fields
    /\ {"fromToken", "toToken"} \subseteq DOMAIN msg.toks
    /\ "fromAmount" \in DOMAIN msg.nums

\* the string literals of msg.to_string(); field names and token ids are literals too,
\* all shorter than the shortest address
MsgLiterals(msg) == {msg.fields[k] : k \in DOMAIN msg.fields} \cup msg.lits

Digit(d) == <<"0", "1", "2", "3", "4", "5", "6", "7", "8", "9">>[d + 1]
RECURSIVE DecStr(_)
DecStr(n) == IF n < 10 THEN <<Digit(n)>> ELSE DecStr(n \div 10) \o <<Digit(n % 10)>>
FracDigits == 9
\* format!("{:.9}", amount)
FormatFixed(n) == DecStr(n) \o <<".">> \o [i \in 1..FracDigits |-> "0"]

\* the DVM pass of the changeset sets 1 whatever was there
ApplyDvmOverwriting(cs, k) ==
    IF k \in DOMAIN cs THEN [cs EXCEPT ![k] = 1] ELSE cs @@ (k :> 1)

\* one step of the DVM pass: get_mut(k): 0 becomes 2, absent becomes 1
ApplyDvm(cs, k) ==
    IF k \in DOMAIN cs
    THEN (IF cs[k] = 0 THEN [cs EXCEPT ![k] = 2] ELSE cs)
    ELSE cs @@ (k :> 1)

RECURSIVE ApplyDvmAll(_, _)
ApplyDvmAll(cs, ks) ==
    IF ks = {} THEN cs
    ELSE LET k == CHOOSE x \in ks : TRUE IN ApplyDvmAll(ApplyDvm(cs, k), ks \ {k})

\* the changeset of one transaction: [in_addr, out_addr] -> c_flags
Changeset(tx_in_addrs, tx_out, dvm_in_addrs, dvm_addrs) ==
    ApplyDvmAll([k \in (DOMAIN tx_in_addrs) \X (DOMAIN tx_out) |-> 0],
                dvm_in_addrs \X dvm_addrs)

\* the --enable-graph-table flag: a bool whose default is true, which the command
\* line can only set to true
enable_addr_graph == TRUE

NoType == [some |-> FALSE, v |-> Known("Unknown")]

\* the folded outputs as they are
StripNothing(m) == m

\* line 154: the "x" sentinel is filtered out of the folded outputs
StripX(m) == [a \in (DOMAIN m) \ {X} |-> m[a]]

\* lines 157-162: TxType::from of vm.txtype when there is a vm, and the coinbase
\* override when the folded inputs are empty
TxTypeOf(tx, tx_in_addrs) ==
    IF DOMAIN tx_in_addrs = {} THEN Some(Known("Coinbase"))
    ELSE IF tx.vm.some THEN Some(TxTypeFrom(tx.vm.v.txtype))
    ELSE NoType

\* lines 164-170: the addresses of vm.msg, unless the type is Coinbase, Unknown, Utxo
\* or None
DvmAddrsOf(tx, tx_type) ==
    IF tx_type.some /\ tx_type.v.variant \notin {"Coinbase", "Unknown", "Utxo"}
    THEN extract_all_dfi_addresses(JsonText(MsgLiterals(tx.vm.v.msg)))
    ELSE {}

IsSwap(tx_type) == tx_type.some /\ tx_type.v.variant \in {"PoolSwap", "CompositeSwap"}

\* the icx_data of the log entry of a transaction of any type
IcxOfAnyType(tx, tx_type) ==
    IF tx.txid \in DOMAIN LogEntries THEN LogEntries[tx.txid].icx_data ELSE NoIcx

\* lines 186-199: the icx_data of the log entry of an ICXClaimDFCHTLC
IcxOf(tx, tx_type) ==
    IF tx_type.some /\ tx_type.v.variant = "ICXClaimDFCHTLC" /\ tx.txid \in DOMAIN LogEntries
    THEN LogEntries[tx.txid].icx_data
    ELSE NoIcx

\* everything the tx loop has computed for one transaction when it reaches line 247
Classified(tx, tx_in_addrs, tx_out, tx_type, dvm_addrs, dvm_in_addrs, icx) ==
    [txid |-> tx.txid,
     tx_in_addrs |-> tx_in_addrs,
     tx_out |-> tx_out,
     tx_type |-> tx_type,
     dvm_addrs |-> dvm_addrs,
     dvm_in_addrs |-> dvm_in_addrs,
     changeset |-> IF enable_addr_graph
                   THEN Changeset(tx_in_addrs, tx_out, dvm_in_addrs, dvm_addrs)
                   ELSE << >>,
     icx_claim_data |-> [some |-> icx.some,
                         v |-> [order_tx |-> icx.v.order_tx, claim_tx |-> icx.v.claim_tx,
                                offer_tx |-> icx.v.offer_tx,
                                dfchtlc_tx |-> icx.v.dfchtlc_tx]],
     icx_addr |-> IF icx.some THEN icx.v.address ELSE EmptyStr,
     icx_amt |-> IF icx.some THEN icx.v.amount ELSE EmptyStr,
     swap_from |-> IF IsSwap(tx_type)
                   THEN token_id_to_symbol_maybe(tx.vm.v.msg.toks["fromToken"]) ELSE "",
     swap_to |-> IF IsSwap(tx_type)
                 THEN token_id_to_symbol_maybe(tx.vm.v.msg.toks["toToken"]) ELSE "",
     swap_amt |-> IF IsSwap(tx_type) THEN FormatFixed(tx.vm.v.msg.nums["fromAmount"])
                  ELSE EmptyStr,
     data |-> tx]

\* every DVM address taken for an input
DvmInAll(dvm_addrs, tx_in_addrs) == dvm_addrs

\* lines 203-206: the DVM addresses that are keys of the folded inputs
DvmIn(dvm_addrs, tx_in_addrs) == {a \in dvm_addrs : a \in DOMAIN tx_in_addrs}

\* lines 178-206: the swap message is decoded ('?'), the log entry looked up, and
\* dvm_addrs partitioned by membership in the folded inputs
ClassifyTyped(tx, tx_in_addrs, tx_out, tx_type, dvm_addrs) ==
    IF IsSwap(tx_type) /\ ~PoolSwapMsgDecodes(tx.vm.v.msg) THEN Fail("serde json")
    ELSE Okay(Classified(tx, tx_in_addrs, tx_out, tx_type, dvm_addrs,
                         DvmIn(dvm_addrs, tx_in_addrs), IcxOf(tx, tx_type)))

ClassifyFolded(tx, tx_in_addrs, tx_out, tx_type) ==
    ClassifyTyped(tx, tx_in_addrs, tx_out, tx_type, DvmAddrsOf(tx, tx_type))

\* lines 148-155: '?' on the resolved inputs, then the two folds
ClassifyResolved(tx, ins, folded_out) ==
    IF ~ins.ok THEN Fail(ins.err)
    ELSE ClassifyFolded(tx, fold_addr_val_map(ins.v), StripX(folded_out),
                        TxTypeOf(tx, fold_addr_val_map(ins.v)))

\* The body of "for tx in block.tx" up to the final strings: what is computed from
\* the transaction, the store and the LogEntry map, or the error '?' returns.
Classify(tx, db) ==
    ClassifyResolved(tx, get_txin_addr_val_list(tx.vin, db),
                     fold_addr_val_map(get_txout_addr_val_list(tx.vout)))

----------------------------------------------------------------------------
(* The final strings of a tx row: src/cliindexer.rs lines 247-292 *)

\* a text column: kind "empty" is String::new(), "object" and "array" are JSON texts
\* with their entries in the order they were written
EmptyText == [kind |-> "empty", items |-> << >>]

\* serde_json::to_string of a HashMap iterated in the order keys
MapToJson(m, keys) == [kind |-> "object", items |-> [i \in 1..Len(keys) |-> <<keys[i], m[keys[i]]>>]]

\* serde_json::to_string of a Vec or of a HashSet iterated in that order
ListToJson(list) == [kind |-> "array", items |-> list]

\* serde_json::to_string of an IcxTxSet
IcxToJson(d) == [kind |-> "IcxTxSet", items |-> <<d>>]

\* serde_json::from_str::<HashMap<String, f64>>: a later duplicate key wins
RECURSIVE MapFromItems(_, _, _)
MapFromItems(items, i, m) ==
    IF i > Len(items) THEN m
    ELSE MapFromItems(items, i + 1,
                      IF items[i][1] \in DOMAIN m
                      THEN [m EXCEPT ![items[i][1]] = items[i][2]]
                      ELSE m @@ (items[i][1] :> items[i][2]))
MapFromJson(text) == MapFromItems(text.items, 1, << >>)
\* the JSON of a collection whether or not it is empty
JsonAlways(is_empty, json) == json

\* lines 250-275: empty() for an empty or absent collection, else its JSON
JsonUnlessEmpty(is_empty, json) == IF is_empty THEN EmptyText ELSE json

\* what stmts[1] is given for one transaction; in_order, out_order and dvm_order are
\* the orders in which tx_in_addrs, tx_out and dvm_addrs yield their entries
\* (dvm_in_addrs is the partition of dvm_addrs.iter(), so it keeps that order)
TxRowOf(c, h, in_order, out_order, dvm_order) ==
    LET dvm_in_list == SelectSeq(dvm_order, LAMBDA a : a \in c.dvm_in_addrs) IN
    [txid |-> c.txid,
     height |-> h,
     tx_type |-> TxTypeToString(IF c.tx_type.some THEN c.tx_type.v ELSE Known("Unknown")),
     tx_in |-> JsonUnlessEmpty(DOMAIN c.tx_in_addrs = {}, MapToJson(c.tx_in_addrs, in_order)),
     tx_out |-> JsonUnlessEmpty(DOMAIN c.tx_out = {}, MapToJson(c.tx_out, out_order)),
     dvm_in |-> JsonUnlessEmpty(dvm_in_list = << >>, ListToJson(dvm_in_list)),
     dvm_out |-> JsonUnlessEmpty(c.dvm_addrs = {}, ListToJson(dvm_order)),
     data |-> TxToJson(c.data),
     icx_data |-> JsonUnlessEmpty(~c.icx_claim_data.some, IcxToJson(c.icx_claim_data.v)),
     icx_addr |-> c.icx_addr,
     icx_btc_exp_amt |-> c.icx_amt,
     swap_from |-> c.swap_from,
     swap_to |-> c.swap_to,
     swap_amt |-> c.swap_amt]

RECURSIVE InsertEdges(_, _, _, _)
\* "for ([edge_in, edge_out], c_flags) in &changeset": stmts[2] for each entry, in the
\* order ks in which the changeset yields them
InsertEdges(db, txid, cs, ks) ==
    IF ks = << >> THEN db
    ELSE InsertEdges(InsertEdge(db, txid, Head(ks)[1], Head(ks)[2], cs[Head(ks)]),
                     txid, cs, Tail(ks))

----------------------------------------------------------------------------
(* The cindex run: src/cliindexer.rs run.

   The failures followed are those the inputs decide: an RPC that fails, a block
   that does not decode, a vin that does not resolve, a PoolSwap message that does
   not decode.  The storage engine is taken to execute every statement it is given
   (a failing statement leaves run by the same '?' as a failing vin). *)

\* an error value: what failed and the height it failed at
NoErr == [some |-> FALSE, v |-> <<"", 0>>]
NoResult == [kind |-> "none", err |-> <<"", 0>>]
NoSig == [some |-> FALSE, phase |-> "", height |-> 0]

NewHist == [events |-> << >>, sig |-> NoSig, finished |-> {}, dropOpen |-> FALSE]
Event(e, h) == [e |-> e, h |-> h]
Log(e, h) == [hist EXCEPT !.events = Append(@, Event(e, h))]

\* cli.get_block_count() and the clamp of lines 95-99
chain_height == Tip
iter_end_height == IF chain_height < args.end_height THEN chain_height ELSE args.end_height

\* the database a finished "cindex -s Base -e Base" leaves behind
PreIndexedWith(c) ==
    [InsertTx(InsertBlock(EmptyDb, Base, <<"hash", 0, "a">>, "block"),
              TxRowOf(c, Base, << >>, CHOOSE o \in Orderings(DOMAIN c.tx_out) : TRUE, << >>))
     EXCEPT !.written = {}]
PreIndexed == PreIndexedWith(Classify(CbTx(0), EmptyDb).v)

Configs ==
    {[start_height |-> Base, end_height |-> DefaultEnd, db |-> EmptyDb, indexes |-> {}],
     [start_height |-> Base + 1, end_height |-> DefaultEnd, db |-> EmptyDb, indexes |-> {}],
     [start_height |-> Base + 1, end_height |-> DefaultEnd, db |-> PreIndexed,
      indexes |-> RangeOf(IndexCatalog)],
     [start_height |-> Base, end_height |-> Base + 1, db |-> EmptyDb, indexes |-> {}]}

InitCindex ==
    /\ chain \in Chains
    /\ \E cfg \in Configs :
          /\ args = [start_height |-> cfg.start_height, end_height |-> cfg.end_height]
          /\ disk = cfg.db
          /\ conn = cfg.db
          /\ indexes = cfg.indexes
    /\ quit = FALSE
    /\ pc = "start"
    /\ idx = 1
    /\ height = 0
    /\ txi = 1
    /\ err = NoErr
    /\ result = NoResult
    /\ inTx = FALSE
    /\ runNo = 1
    /\ snap = EmptyDb
    /\ hist = NewHist

\* what the file holds once a '?' has returned from inside the outer transaction: the
\* connection is dropped with the transaction open
DiskAfterEarlyReturnCommitting(dk, cn) == Commit(cn)
DiskAfterEarlyReturn(dk, cn) == Rollback(dk)

\* run returns e by '?' from inside the block loop
EarlyReturn(e) ==
    /\ result' = [kind |-> "Err", err |-> e]
    /\ disk' = DiskAfterEarlyReturn(disk, conn)
    /\ conn' = disk'
    /\ inTx' = FALSE
    /\ hist' = [Log("return", height) EXCEPT !.dropOpen = inTx]
    /\ pc' = "done"

\* line 94: cli.get_block_count()?
Start ==
    /\ pc = "start"
    /\ \/ /\ pc' = "drop"
          /\ idx' = 1
          /\ UNCHANGED <<result, hist>>
       \/ /\ result' = [kind |-> "Err", err |-> <<"get_block_count", 0>>]
          /\ hist' = Log("return", 0)
          /\ pc' = "done"
          /\ UNCHANGED idx
    /\ UNCHANGED <<chain, args, quit, height, txi, err, disk, conn, inTx, indexes, runNo, snap>>
    /\ UNCHANGED <<gbuildVars, pathVars, walkVars, logVars, callVars>>

\* lines 102-110: one turn of the drop loop
DropIndex ==
    /\ pc = "drop"
    /\ IF idx > Len(IndexCatalog) \/ quit
       THEN /\ pc' = "begin"
            /\ UNCHANGED <<idx, indexes, hist>>
       ELSE /\ indexes' = indexes \ {IndexCatalog[idx]}
            /\ idx' = idx + 1
            /\ hist' = Log("drop", idx)
            /\ UNCHANGED pc
    /\ UNCHANGED <<chain, args, quit, height, txi, err, result, disk, conn, inTx, runNo, snap>>
    /\ UNCHANGED <<gbuildVars, pathVars, walkVars, logVars, callVars>>

\* lines 112-116: the statements, begin transaction, the loop variable
Begin ==
    /\ pc = "begin"
    /\ inTx' = TRUE
    /\ err' = NoErr
    /\ height' = args.start_height
    /\ hist' = Log("begin", 0)
    /\ pc' = "loop"
    /\ UNCHANGED <<chain, args, quit, idx, txi, result, disk, conn, indexes, runNo, snap>>
    /\ UNCHANGED <<gbuildVars, pathVars, walkVars, logVars, callVars>>

\* the loop goes on whatever the flag says
LoopContinuesIgnoringQuit(h, q) == h <= iter_end_height

\* "for height in start_height..=iter_end_height { if quit.load(..) { break; }"
LoopContinues(h, q) == h <= iter_end_height /\ ~q

\* lines 116-120: the range is exhausted, or the flag is set, or the height is started
LoopHead ==
    /\ pc = "loop"
    /\ pc' = IF LoopContinues(height, quit) THEN "fetch" ELSE "commit"
    /\ UNCHANGED <<chain, args, quit, idx, height, txi, err, result, disk, conn, inTx,
                   indexes, runNo, snap, hist>>
    /\ UNCHANGED <<gbuildVars, pathVars, walkVars, logVars, callVars>>

\* lines 125-138: get_block_hash or get_block fails
RpcFails ==
    /\ pc = "fetch"
    /\ \E rpc \in {"get_block_hash", "get_block"} : err' = Some(<<rpc, height>>)
    /\ pc' = "commit"
    /\ UNCHANGED <<chain, args, quit, idx, height, txi, result, disk, conn, inTx,
                   indexes, runNo, snap, hist>>
    /\ UNCHANGED <<gbuildVars, pathVars, walkVars, logVars, callVars>>

\* lines 139-140: the block text does not decode
BlockDecodeFails ==
    /\ pc = "fetch"
    /\ ~chain[height].decodable
    /\ EarlyReturn(<<"serde json", height>>)
    /\ UNCHANGED <<chain, args, quit, idx, height, txi, err, indexes, runNo, snap>>
    /\ UNCHANGED <<gbuildVars, pathVars, walkVars, logVars, callVars>>

\* lines 125-145: both RPCs answer, the block decodes, stmts[0] writes its row
FetchBlock ==
    /\ pc = "fetch"
    /\ chain[height].decodable
    /\ conn' = InsertBlock(conn, height, chain[height].hash, "block")
    /\ txi' = 1
    /\ hist' = Log("block", height)
    /\ pc' = "tx"
    /\ UNCHANGED <<chain, args, quit, idx, height, err, result, disk, inTx, indexes,
                   runNo, snap>>
    /\ UNCHANGED <<gbuildVars, pathVars, walkVars, logVars, callVars>>

\* lines 148-181: a '?' of the tx loop returns
TxFails ==
    /\ pc = "tx"
    /\ txi <= Len(chain[height].tx)
    /\ \E c \in {Classify(chain[height].tx[txi], conn)} :
          /\ ~c.ok
          /\ EarlyReturn(<<c.err, height>>)
    /\ UNCHANGED <<chain, args, quit, idx, height, txi, err, indexes, runNo, snap>>
    /\ UNCHANGED <<gbuildVars, pathVars, walkVars, logVars, callVars>>

\* lines 148-292: one transaction: its edge rows, then its tx row
ProcessTx ==
    /\ pc = "tx"
    /\ txi <= Len(chain[height].tx)
    /\ \E c \in {Classify(chain[height].tx[txi], conn)} :
          /\ c.ok
          /\ \E in_order \in Orderings(DOMAIN c.v.tx_in_addrs),
                out_order \in Orderings(DOMAIN c.v.tx_out),
                dvm_order \in Orderings(c.v.dvm_addrs),
                edge_order \in Orderings(DOMAIN c.v.changeset) :
                conn' = InsertTx(InsertEdges(conn, c.v.txid, c.v.changeset, edge_order),
                                 TxRowOf(c.v, height, in_order, out_order, dvm_order))
    /\ txi' = txi + 1
    /\ hist' = Log("tx", height)
    /\ UNCHANGED <<chain, args, quit, pc, idx, height, err, result, disk, inTx, indexes,
                   runNo, snap>>
    /\ UNCHANGED <<gbuildVars, pathVars, walkVars, logVars, callVars>>

\* no height is due
CommitDueNever(h) == FALSE

\* line 295: height % 10000 == 0
CommitDue(h) == h % CommitEvery = 0

\* lines 293-299: the block is done; commit and begin at the cadence; next height
EndBlock ==
    /\ pc = "tx"
    /\ txi > Len(chain[height].tx)
    /\ IF CommitDue(height)
       THEN /\ disk' = Commit(conn)
            /\ hist' = [Log("commit_and_begin", height) EXCEPT !.finished = @ \cup {height}]
       ELSE /\ hist' = [hist EXCEPT !.finished = @ \cup {height}]
            /\ UNCHANGED disk
    /\ height' = height + 1
    /\ pc' = "loop"
    /\ UNCHANGED <<chain, args, quit, idx, txi, err, result, conn, inTx, indexes, runNo, snap>>
    /\ UNCHANGED <<gbuildVars, pathVars, walkVars, logVars, callVars>>

\* lines 301-302: sqlite_commit_tx
FinalCommit ==
    /\ pc = "commit"
    /\ disk' = Commit(conn)
    /\ inTx' = FALSE
    /\ hist' = Log("commit", height)
    /\ idx' = 1
    /\ pc' = "create"
    /\ UNCHANGED <<chain, args, quit, height, txi, err, result, conn, indexes, runNo, snap>>
    /\ UNCHANGED <<gbuildVars, pathVars, walkVars, logVars, callVars>>

\* the create loop stops at the end of the catalog only
CreateLoopBreaksAtEnd(i, q) == i > Len(IndexCatalog)

\* "for (name, indexer) in .. { if quit.load(..) { break; }"
CreateLoopBreaks(i, q) == i > Len(IndexCatalog) \/ q

\* lines 304-311: one turn of the create loop
CreateIndex ==
    /\ pc = "create"
    /\ IF CreateLoopBreaks(idx, quit)
       THEN /\ pc' = "return"
            /\ hist' = Log("create_end", idx)
            /\ UNCHANGED <<idx, indexes>>
       ELSE /\ indexes' = indexes \cup {IndexCatalog[idx]}
            /\ idx' = idx + 1
            /\ hist' = Log("create", idx)
            /\ UNCHANGED pc
    /\ UNCHANGED <<chain, args, quit, height, txi, err, result, disk, conn, inTx, runNo, snap>>
    /\ UNCHANGED <<gbuildVars, pathVars, walkVars, logVars, callVars>>

\* the deferred error is forgotten
ReturnValueForgetting(e) == [kind |-> "Ok", err |-> <<"", 0>>]

\* "if let Some(e) = err { return Err(e); } .. Ok(())"
ReturnValue(e) ==
    IF e.some THEN [kind |-> "Err", err |-> e.v] ELSE [kind |-> "Ok", err |-> <<"", 0>>]

\* lines 313-318: the deferred error, or Ok
Return ==
    /\ pc = "return"
    /\ result' = ReturnValue(err)
    /\ hist' = Log("return", height)
    /\ pc' = "done"
    /\ UNCHANGED <<chain, args, quit, idx, height, txi, err, disk, conn, inTx, indexes,
                   runNo, snap>>
    /\ UNCHANGED <<gbuildVars, pathVars, walkVars, logVars, callVars>>

\* where run is when the signal arrives: before the block loop, at its head, inside
\* a block, or after the loop
Phase ==
    CASE pc \in {"start", "drop", "begin"} -> "before"
      [] pc = "loop" -> "head"
      [] pc \in {"fetch", "tx"} -> "block"
      [] OTHER -> "after"

\* SIGINT: signal_hook sets the flag registered at line 63.  The first run is
\* followed under interruption, the re-run without.
Sigint ==
    /\ pc # "done"
    /\ runNo = 1
    /\ ~quit
    /\ quit' = TRUE
    /\ hist' = [hist EXCEPT !.sig = [some |-> TRUE, phase |-> Phase, height |-> height]]
    /\ UNCHANGED <<chain, args, pc, idx, height, txi, err, result, disk, conn, inTx,
                   indexes, runNo, snap>>
    /\ UNCHANGED <<gbuildVars, pathVars, walkVars, logVars, callVars>>

\* cindex is started again with the same arguments after a run that returned Ok
\* uninterrupted
Rerun ==
    /\ pc = "done"
    /\ runNo = 1
    /\ result.kind = "Ok"
    /\ ~quit
    /\ runNo' = 2
    /\ snap' = disk
    /\ disk' = [disk EXCEPT !.written = {}]
    /\ conn' = disk'
    /\ pc' = "start"
    /\ idx' = 1
    /\ height' = 0
    /\ txi' = 1
    /\ err' = NoErr
    /\ result' = NoResult
    /\ hist' = NewHist
    /\ UNCHANGED <<chain, args, quit, inTx, indexes>>
    /\ UNCHANGED <<gbuildVars, pathVars, walkVars, logVars, callVars>>

Next ==
    \/ Start
    \/ DropIndex
    \/ Begin
    \/ LoopHead
    \/ RpcFails
    \/ BlockDecodeFails
    \/ FetchBlock
    \/ TxFails
    \/ ProcessTx
    \/ EndBlock
    \/ FinalCommit
    \/ CreateIndex
    \/ Return
    \/ Sigint
    \/ Rerun

\* the graph builder and the path query are not running
NoFiles == [written |-> FALSE, txiter |-> 0, meta |-> << >>, data |-> [nodes |-> << >>, edges |-> << >>]]
NoPaths == [some |-> FALSE, v |-> << >>]

IdleGbuild ==
    /\ g = [nodes |-> << >>, edges |-> << >>]
    /\ node_index_map = << >>
    /\ rows = << >>
    /\ txiter = 0
    /\ gpc = "idle"
    /\ gquit = FALSE
    /\ user_sig = FALSE
    /\ gres = [kind |-> "none", err |-> ""]
    /\ files = NoFiles
    /\ glog = << >>

IdlePath ==
    /\ ptool = "none"
    /\ pg = [nodes |-> << >>, edges |-> << >>]
    /\ ptxs = << >>
    /\ psrc = ""
    /\ pdest = ""
    /\ pquit = FALSE
    /\ visit_next = {}
    /\ scores = << >>
    /\ estimate_scores = << >>
    /\ predecessor = << >>
    /\ pushes = 0
    /\ paths = NoPaths
    /\ ppc = "idle"
    /\ pres = [kind |-> "none", err |-> ""]
    /\ emitted = << >>

NoGraph == [nodes |-> << >>, edges |-> << >>, index |-> << >>]

\* bigdecimal::BigDecimal: an integer and the number of its fractional digits
Big(int, scale) == [int |-> int, scale |-> scale]
BigZero == Big(0, 0)

IdleWalk ==
    /\ wg = NoGraph
    /\ waddr = ""
    /\ graph_ignore_addr_list = {}
    /\ wtxs = << >>
    /\ wquit = FALSE
    /\ wpc = "idle"
    /\ icx_scan = "none"
    /\ level = 0
    /\ visited = {}
    /\ current_level = << >>
    /\ next_level = << >>
    /\ wpos = 1
    /\ total_icx = BigZero
    /\ total_btc_swaps = BigZero
    /\ wres = [kind |-> "none", err |-> ""]
    /\ expanded = << >>

NoLogData == [data |-> << >>, icx_count |-> 0, icx_calc_count |-> 0, swap_count |-> 0]

IdleLog ==
    /\ log_lines = << >>
    /\ lineno = 0
    /\ combined_data = NoLogData
    /\ lpc = "idle"
    /\ lres = [kind |-> "none", err |-> ""]

IdleCall ==
    /\ fname = "none"
    /\ farg = << >>
    /\ fret = << >>

Init == InitCindex /\ IdleGbuild /\ IdlePath /\ IdleWalk /\ IdleLog /\ IdleCall

Spec == Init /\ [][Next]_vars

----------------------------------------------------------------------------
(* Properties of the cindex run *)

\* the keys of a JSON object text, the elements of a JSON array text
Keys(text) == {text.items[i][1] : i \in 1..Len(text.items)}
Items(text) == RangeOf(text.items)

\* the address pairs a tx row stands for
RowPairs(r) == (Keys(r.tx_in) \X Keys(r.tx_out)) \cup (Items(r.dvm_in) \X Items(r.dvm_out))

\* the positions of the milestones e in the history of the run
EventAt(e) == {i \in 1..Len(hist.events) : hist.events[i].e = e}

\* the heights whose block row the run has written, committed or not
Started == {hist.events[i].h : i \in EventAt("block")}

\* db holds the block row of height h, the tx row of each of its transactions and
\* the edge rows of each of them
BlockIndexed(db, h) ==
    /\ \E b \in db.blocks : b.height = h /\ b.hash = chain[h].hash
    /\ \A i \in 1..Len(chain[h].tx) :
          \E r \in db.txs :
             /\ r.txid = chain[h].tx[i].txid
             /\ r.height = h
             /\ \A p \in RowPairs(r) :
                   \E e \in db.edges :
                      e.txid = r.txid /\ e.in_addr = p[1] /\ e.out_addr = p[2]

\* C1: the committed contents always hold the heights written by this run as a
\* contiguous range start..h, and each of these blocks with the tx rows and edge rows
\* of all its transactions; this is so at every commit and after every exit, since the
\* file changes at commits only.
C1_CommittedPrefix ==
    /\ \/ disk.written = {}
       \/ \E h \in Base..Tip : disk.written = args.start_height..h
    /\ \A h \in disk.written : BlockIndexed(disk, h)

\* a run that committed at the cadence height and left by '?' inside the next block
C1_Witness ==
    /\ pc = "done"
    /\ hist.dropOpen
    /\ Started = {Base, Base + 1, Base + 2}
    /\ disk.written = {Base, Base + 1}

\* C2: when get_block_hash or get_block fails at height h, no row of h is written, the
\* loop is left, the blocks processed below h are committed, the create loop is run
\* after the commit, and run returns that error after it.
C2_DeferredRpcError ==
    err.some =>
       /\ pc \in {"commit", "create", "return", "done"}
       /\ err.v[2] \notin Started
       /\ hist.finished = args.start_height..(err.v[2] - 1)
       /\ result.kind # "Ok"
       /\ pc = "done" =>
             /\ result = [kind |-> "Err", err |-> err.v]
             /\ disk.written = hist.finished
             /\ \E i \in EventAt("commit"), j \in EventAt("create_end") :
                   /\ i < j
                   /\ j < Len(hist.events)
                   /\ hist.events[Len(hist.events)].e = "return"

\* the RPC failed at the cadence height, with the block below it not yet committed
C2_Witness ==
    /\ pc = "done"
    /\ err.some
    /\ err.v[2] = Base + 1
    /\ disk.written = {Base}
    /\ indexes = RangeOf(IndexCatalog)

\* C3: run never returns with the outer transaction open: on every exit path taken
\* after "begin transaction" the commit has run before the connection is dropped.
C3_CommittedOnEveryExit ==
    (pc = "done" /\ EventAt("begin") # {}) => ~hist.dropOpen

\* a run that began its transaction and left by '?' with the rows of its first block
\* not committed
C3_Witness ==
    /\ pc = "done"
    /\ EventAt("begin") # {}
    /\ hist.dropOpen
    /\ Base \in hist.finished
    /\ disk.written = {}

\* the signal arrived while run was in the block loop
SigInLoop == hist.sig.some /\ hist.sig.phase \in {"head", "block"}

\* the last height the loop may still write once the signal has arrived
LastStartable ==
    IF hist.sig.phase = "block" THEN hist.sig.height ELSE hist.sig.height - 1

\* C4 as stated: after a SIGINT during the block loop no further height is started,
\* all blocks processed are committed by the final commit, and unless an RPC error was
\* deferred the current block is completed and run returns Ok.
C4_Claimed ==
    (pc = "done" /\ SigInLoop) =>
       /\ \A h \in Started : h <= LastStartable
       /\ disk.written = hist.finished
       /\ ~err.some =>
             /\ result.kind = "Ok"
             /\ hist.sig.phase = "block" => hist.sig.height \in hist.finished

\* the signal arrived inside a block that a '?' then left: run returned the error
\* with the transaction open
C4_Witness ==
    /\ pc = "done"
    /\ SigInLoop
    /\ hist.sig.phase = "block"
    /\ hist.dropOpen
    /\ result.kind = "Err"
    /\ result.err[2] = hist.sig.height

\* the txs table of db holds a row for vin.txid whose transaction has the vout
Resolves(db, vin) ==
    \E r \in db.txs :
       /\ r.txid = vin.txid
       /\ \E i \in 1..Len(TxFromJson(r.data).vout) : TxFromJson(r.data).vout[i].n = vin.vout

HasUnresolvedVin(db, tx) ==
    \E i \in 1..Len(tx.vin) : ~tx.vin[i].coinbase /\ ~Resolves(db, tx.vin[i])

VinClosed(db) == \A r \in db.txs : ~HasUnresolvedVin(db, TxFromJson(r.data))

\* C5: every standard vin of every tx row resolves to a tx row with that vout, in what
\* the connection sees and in what is committed; a transaction of a started block
\* with a vin that does not resolve has no row, and the run that met it returns an error.
C5_VinClosure ==
    /\ VinClosed(conn)
    /\ VinClosed(disk)
    /\ \A h \in Started : \A i \in 1..Len(chain[h].tx) :
          HasUnresolvedVin(conn, chain[h].tx[i]) =>
             /\ \A r \in conn.txs : r.txid # chain[h].tx[i].txid
             /\ pc = "done" => result.kind = "Err"

\* a run that indexed a transaction with a standard vin and then met one whose vin
\* names an unknown transaction
C5_Witness ==
    /\ pc = "done"
    /\ result.kind = "Err"
    /\ result.err[1] = "tx hash not found"
    /\ \E r \in disk.txs : \E i \in 1..Len(TxFromJson(r.data).vin) :
          ~TxFromJson(r.data).vin[i].coinbase

\* C6: a tx row has tx_type "cb" exactly when its folded tx_in is empty (which is when
\* its tx_in text is the empty string).
C6_CoinbaseIffNoInputs ==
    \A r \in conn.txs : (r.tx_type = "cb") <=> (r.tx_in.kind = "empty")

\* a row typed "cb" with a tx_in text that is not empty
C6_Witness ==
    \E r \in disk.txs : r.tx_type = "cb" /\ r.tx_in.kind = "object"

\* the flag the pair p is due, U being the UTXO product and D the DVM product
FlagDue(p, U, D) ==
    IF p \in U /\ p \notin D THEN 0
    ELSE IF p \in D /\ p \notin U THEN 1
    ELSE 2

\* the edge rows E are those of the products U and D: the pairs of the union, one row
\* each, with the flag due
EdgeRowsRight(E, U, D) ==
    /\ {<<e.in_addr, e.out_addr>> : e \in E} = U \cup D
    /\ Cardinality(E) = Cardinality(U \cup D)
    /\ \A e \in E : e.c_flags = FlagDue(<<e.in_addr, e.out_addr>>, U, D)

\* C7: the edge rows of each transaction are exactly the pairs of
\* keys(tx_in) x keys(tx_out) united with dvm_in x dvm_addrs, one row per pair, flagged
\* 0 for a pair of the first product only, 1 for the second only, 2 for both.
C7_EdgeFlags ==
    \A r \in conn.txs :
       EdgeRowsRight({e \in conn.edges : e.txid = r.txid},
                     Keys(r.tx_in) \X Keys(r.tx_out),
                     Items(r.dvm_in) \X Items(r.dvm_out))

\* edge rows of all three flags are in the table
C7_Witness ==
    \A f \in {0, 1, 2} : \E e \in conn.edges : e.c_flags = f

\* the three tables as stored
Tables(db) == [blocks |-> db.blocks, txs |-> db.txs, edges |-> db.edges]

\* a JSON text up to the order of its entries
Unordered(text) == [kind |-> text.kind, items |-> RangeOf(text.items)]

\* the three tables up to the order of the entries inside the tx_in, tx_out, dvm_in and
\* dvm_out texts and up to the rowid of the edge rows, with their row counts
Logical(db) ==
    [blocks |-> db.blocks,
     txs |-> {[r EXCEPT !.tx_in = Unordered(@), !.tx_out = Unordered(@),
                        !.dvm_in = Unordered(@), !.dvm_out = Unordered(@)] : r \in db.txs},
     edges |-> {[txid |-> e.txid, in_addr |-> e.in_addr, out_addr |-> e.out_addr,
                 c_flags |-> e.c_flags] : e \in db.edges},
     count |-> <<Cardinality(db.blocks), Cardinality(db.txs), Cardinality(db.edges)>>]

RerunDone == runNo = 2 /\ pc = "done" /\ result.kind = "Ok"

\* C8 as stated: after the second run the three tables hold what they held after the
\* first.
C8_Claimed == RerunDone => Tables(disk) = Tables(snap)

\* C8: after the second run the three tables hold the rows they held after the first,
\* none duplicated and none stale, up to the order of the keys inside the JSON texts
\* of tx_in, tx_out, dvm_in, dvm_out and up to the rowid values of tx_addr_graph.
C8_Idempotent == RerunDone => Logical(disk) = Logical(snap)

\* a re-run over three blocks that left a stored text or a rowid different
C8_Witness ==
    /\ RerunDone
    /\ Cardinality(disk.blocks) = 3
    /\ Tables(disk) # Tables(snap)

\* the positions in the history of the row writes (a block row, or the rows of a
\* transaction)
WriteAt == EventAt("block") \cup EventAt("tx")

\* C13: every write of a block, tx or edge row comes after the drop of all indexes of
\* the catalog and before the first re-creation; while rows are being written no index
\* of the catalog exists; re-creation comes after the final commit and goes in catalog
\* order.  This includes the runs in which SIGINT arrives during the drop loop.
C13_WritesBetweenDropAndCreate ==
    /\ \A w \in WriteAt :
          /\ Cardinality({d \in EventAt("drop") : d < w}) = Len(IndexCatalog)
          /\ \A c \in EventAt("create") : c > w
    /\ pc \in {"fetch", "tx"} => indexes = {}
    /\ \A c \in EventAt("create") :
          /\ \E k \in EventAt("commit") : k < c
          /\ hist.events[c].h = Cardinality({b \in EventAt("create") : b <= c})
          /\ {IndexCatalog[i] : i \in 1..hist.events[c].h} \subseteq indexes

\* a run over a database that had its indexes: they were dropped, two blocks were
\* written and the whole catalog was created again
C13_Witness ==
    /\ pc = "done"
    /\ runNo = 1
    /\ disk # EmptyDb
    /\ args.start_height = Base + 1
    /\ Cardinality(EventAt("drop")) = Len(IndexCatalog)
    /\ Cardinality(EventAt("block")) = 2
    /\ Cardinality(EventAt("create")) = Len(IndexCatalog)
    /\ indexes = RangeOf(IndexCatalog)
    /\ \E b \in disk.blocks : b.height = Base

\* the rows of the three tables
Rows(db) == db.blocks \cup db.txs \cup db.edges

\* a step taken with the SIGINT flag set creates no index and leaves every committed
\* row in place
QuietOnceInterrupted == quit => indexes' = indexes /\ Rows(disk) \subseteq Rows(disk')

VoutsOf(r) == RangeOf(TxFromJson(r.data).vout)

\* C19: the tx_out map of a stored tx row never has the key "x", whatever mix of
\* address-less and addressed vouts the transaction has.
C19_NoSentinelKey ==
    \A r \in conn.txs \cup disk.txs : X \notin Keys(r.tx_out)

\* a committed row of a transaction with an address-less and an addressed vout, and
\* one of a transaction whose only addressed vouts went to one address
C19_Witness ==
    \E r \in disk.txs :
       /\ \E v \in VoutsOf(r) : ~v.addresses.some
       /\ \E v \in VoutsOf(r) : v.addresses.some
       /\ Cardinality(VoutsOf(r)) = 3
       /\ r.tx_out.kind = "object"

CompositeColumns == {"tx_in", "tx_out", "dvm_in", "dvm_out", "icx_data"}

\* a composite text is the empty string or JSON with something in it
NeverEmptyJson(text) ==
    /\ text.kind = "empty" => text.items = << >>
    /\ text.kind # "empty" => text.items # << >>

\* C20: each of the columns tx_in, tx_out, dvm_in, dvm_out and icx_data of a stored tx
\* row is the empty string when its collection is empty or absent, never "{}" or "[]":
\* no inputs but coinbase ones, no addressed vout, no ICX record.
C20_EmptyStringForEmpty ==
    \A r \in conn.txs \cup disk.txs :
       /\ \A col \in CompositeColumns : NeverEmptyJson(r[col])
       /\ (\A v \in VoutsOf(r) : ~v.addresses.some \/ JoinPlus(v.addresses.v) = X) =>
             r.tx_out.kind = "empty"
       /\ (\A i \in RangeOf(TxFromJson(r.data).vin) : i.coinbase) => r.tx_in.kind = "empty"
       /\ r.tx_type # "icx-claim" => r.icx_data.kind = "empty"
       /\ r.dvm_out.kind = "empty" => r.dvm_in.kind = "empty"

\* a committed row with every composite column empty, next to one of an ICX claim
\* with inputs, outputs and the ICX record
C20_Witness ==
    /\ \E r \in disk.txs : \A col \in CompositeColumns : r[col].kind = "empty"
    /\ \E r \in disk.txs : \A col \in {"tx_in", "tx_out", "icx_data"} : r[col].kind # "empty"

----------------------------------------------------------------------------
(* The graph builder: src/grapher.rs run, over SqliteBlockStore::iter_txs *)

IdleCindex ==
    /\ chain = << >>
    /\ args = [start_height |-> 0, end_height |-> 0]
    /\ quit = FALSE
    /\ pc = "idle"
    /\ idx = 1
    /\ height = 0
    /\ txi = 1
    /\ err = NoErr
    /\ result = NoResult
    /\ disk = EmptyDb
    /\ conn = EmptyDb
    /\ inTx = FALSE
    /\ indexes = {}
    /\ runNo = 1
    /\ snap = EmptyDb
    /\ hist = NewHist

\* the longest table scanned
MaxRows == 3

ComposAB == JoinPlus(<<AddrA, AddrB>>)

\* the rows the txs table may hold: a spend of a multi-sig output next to a plain
\* one, a payment to a multi-sig, a DVM transfer without addressed outputs, a
\* coinbase, and a row whose tx_in text is not JSON
GRowMenu ==
    {[txid |-> "t1",
      tx_in |-> MapToJson((ComposAB :> 5) @@ (AddrA :> 1), <<ComposAB, AddrA>>),
      tx_out |-> MapToJson(AddrC :> 6, <<AddrC>>),
      dvm_in |-> EmptyText, dvm_out |-> EmptyText],
     [txid |-> "t2",
      tx_in |-> MapToJson(AddrG :> 3, <<AddrG>>),
      tx_out |-> MapToJson(ComposAB :> 3, <<ComposAB>>),
      dvm_in |-> EmptyText, dvm_out |-> EmptyText],
     [txid |-> "t3",
      tx_in |-> MapToJson(AddrG :> 3, <<AddrG>>),
      tx_out |-> EmptyText,
      dvm_in |-> ListToJson(<<AddrG>>), dvm_out |-> ListToJson(<<AddrG, AddrH>>)],
     [txid |-> "t4",
      tx_in |-> EmptyText,
      tx_out |-> MapToJson(AddrA :> 5, <<AddrA>>),
      dvm_in |-> EmptyText, dvm_out |-> EmptyText],
     [txid |-> "t5",
      tx_in |-> [kind |-> "garbage", items |-> << >>],
      tx_out |-> EmptyText,
      dvm_in |-> EmptyText, dvm_out |-> EmptyText]}

InitGbuild ==
    /\ g = [nodes |-> << >>, edges |-> << >>]
    /\ node_index_map = << >>
    /\ rows \in {r \in UNION {[1..k -> GRowMenu] : k \in 1..MaxRows} :
                    \A i, j \in 1..Len(r) : r[i] = r[j] => i = j}
    /\ txiter = 0
    /\ gpc = "scan"
    /\ gquit = FALSE
    /\ user_sig = FALSE
    /\ gres = [kind |-> "none", err |-> ""]
    /\ files = NoFiles
    /\ glog = << >>

\* TxRow::from_sqlite_row: serde_json::from_str of the four texts unless empty
RowDecodes(row) ==
    /\ row.tx_in.kind \in {"empty", "object"}
    /\ row.tx_out.kind \in {"empty", "object"}
    /\ row.dvm_in.kind \in {"empty", "array"}
    /\ row.dvm_out.kind \in {"empty", "array"}

TxRowFrom(row) ==
    [txid |-> row.txid,
     tx_in |-> IF row.tx_in.kind = "empty" THEN << >> ELSE MapFromJson(row.tx_in),
     tx_out |-> IF row.tx_out.kind = "empty" THEN << >> ELSE MapFromJson(row.tx_out),
     dvm_in |-> row.dvm_in.items,
     dvm_out |-> row.dvm_out.items]

\* addr.contains('+')
ContainsPlus(addr) == \E i \in 1..Len(addr) : addr[i] = "+"

\* the composites are kept whole
combine_addrs_unsplit(addresses, dvm_addresses) == addresses \cup dvm_addresses

\* combine_addrs_with_multi_sig: the set of the addresses, the composites split into
\* their parts, and the dvm addresses as they are
combine_addrs_with_multi_sig(addresses, dvm_addresses) ==
    UNION {IF ContainsPlus(a) THEN SplitPlus(a) ELSE {a} : a \in addresses}
       \cup dvm_addresses

\* no address is taken for known
ContainsKeyNever(m, addr) == FALSE

\* line 85: node_index_map.contains_key(addr)
ContainsKey(m, addr) == addr \in DOMAIN m

RECURSIVE AddNodes(_, _)
\* lines 84-89: a node for each address not yet in node_index_map; st is [g, m]
AddNodes(st, addrs) ==
    IF addrs = << >> THEN st
    ELSE AddNodes(IF ContainsKey(st.m, Head(addrs)) THEN st
                  ELSE [g |-> [st.g EXCEPT !.nodes = Append(@, Head(addrs))],
                        m |-> (Head(addrs) :> Len(st.g.nodes)) @@ st.m],
                  Tail(addrs))

\* lines 92-98: "for to_addr in &tx_outs { for from_addr in &tx_ins { g.add_edge(..) } }"
AddEdges(st, tx_ins, tx_outs, txid) ==
    [st EXCEPT !.g.edges =
        @ \o [k \in 1..(Len(tx_outs) * Len(tx_ins)) |->
                [source |-> st.m[tx_ins[((k - 1) % Len(tx_ins)) + 1]],
                 target |-> st.m[tx_outs[((k - 1) \div Len(tx_ins)) + 1]],
                 weight |-> txid]]]

\* the callback body for one row, the two sets being iterated in the orders given
GraphRow(st, tx, tx_ins, tx_outs) ==
    AddEdges(AddNodes(st, tx_ins \o tx_outs), tx_ins, tx_outs, tx.txid)

\* the SIGUSR1 deliveries followed
MaxSignals == 2

\* an entry of the log: what happened, after how many rows, and where the callback stood
GEvent(e) == [e |-> e, txiter |-> txiter, at |-> gpc]
IsUsr1(ev) == ev.e = "usr1"

\* the final dump is made all the same
DumpsAfterScanAlways(r) == TRUE

\* lines 124-138: "if let Err(e) = r { .. } else { dump_graph_data(..)?; }"
DumpsAfterScan(r) == r.kind = "Ok"

\* the flag is left as it is
StoredKept(flag) == flag

\* line 111: user_sig.store(false)
Stored(flag) == FALSE

\* dump_graph_data
Dumped == [written |-> TRUE, txiter |-> txiter, meta |-> node_index_map, data |-> g]

\* what the two files hold once the result of the scan has been handled
FilesAfterScan(r, fl) == IF DumpsAfterScan(r) THEN Dumped ELSE fl

NextRow == rows[txiter + 1]

\* iter_txs: the next row does not decode; '?' returns before the callback is called
GRowFails ==
    /\ gpc = "scan"
    /\ txiter < Len(rows)
    /\ ~RowDecodes(NextRow)
    /\ gres' = [kind |-> "Err", err |-> "serde json"]
    /\ gpc' = "result"
    /\ UNCHANGED <<g, node_index_map, rows, txiter, gquit, user_sig, files>>
    /\ UNCHANGED glog
    /\ UNCHANGED <<cindexVars, pathVars, walkVars, logVars, callVars>>

\* lines 41-44: the callback finds the SIGINT flag set
GInterrupted ==
    /\ gpc = "scan"
    /\ txiter < Len(rows)
    /\ RowDecodes(NextRow)
    /\ gquit
    /\ gres' = [kind |-> "Err", err |-> "interrupted"]
    /\ gpc' = "result"
    /\ UNCHANGED <<g, node_index_map, rows, txiter, gquit, user_sig, files>>
    /\ UNCHANGED glog
    /\ UNCHANGED <<cindexVars, pathVars, walkVars, logVars, callVars>>

\* lines 46-98: the callback takes one row
GRow ==
    /\ gpc = "scan"
    /\ txiter < Len(rows)
    /\ RowDecodes(NextRow)
    /\ ~gquit
    /\ txiter' = txiter + 1
    /\ \E tx \in {TxRowFrom(NextRow)} :
          \E tx_ins \in Orderings(combine_addrs_with_multi_sig(DOMAIN tx.tx_in,
                                                               RangeOf(tx.dvm_in))),
             tx_outs \in Orderings(combine_addrs_with_multi_sig(DOMAIN tx.tx_out,
                                                                RangeOf(tx.dvm_out))) :
             \E st \in {GraphRow([g |-> g, m |-> node_index_map], tx, tx_ins, tx_outs)} :
                /\ g' = st.g
                /\ node_index_map' = st.m
    /\ gpc' = "usr"
    /\ UNCHANGED <<rows, gquit, user_sig, gres, files>>
    /\ UNCHANGED glog
    /\ UNCHANGED <<cindexVars, pathVars, walkVars, logVars, callVars>>

\* line 109: user_sig.load
GLoadUsr ==
    /\ gpc = "usr"
    /\ gpc' = IF user_sig THEN "clear" ELSE "scan"
    /\ UNCHANGED <<g, node_index_map, rows, txiter, gquit, user_sig, gres, files>>
    /\ UNCHANGED glog
    /\ UNCHANGED <<cindexVars, pathVars, walkVars, logVars, callVars>>

\* line 111: user_sig.store(false)
GClearUsr ==
    /\ gpc = "clear"
    /\ user_sig' = Stored(user_sig)
    /\ gpc' = "dump"
    /\ UNCHANGED <<g, node_index_map, rows, txiter, gquit, gres, files>>
    /\ UNCHANGED glog
    /\ UNCHANGED <<cindexVars, pathVars, walkVars, logVars, callVars>>

\* lines 112-118: the dump on SIGUSR1
GDump ==
    /\ gpc = "dump"
    /\ files' = Dumped
    /\ glog' = Append(glog, GEvent("dump"))
    /\ gpc' = "scan"
    /\ UNCHANGED <<g, node_index_map, rows, txiter, gquit, user_sig, gres>>
    /\ UNCHANGED <<cindexVars, pathVars, walkVars, logVars, callVars>>

\* iter_txs: q.next() yields no more rows
GScanEnd ==
    /\ gpc = "scan"
    /\ txiter = Len(rows)
    /\ gres' = [kind |-> "Ok", err |-> ""]
    /\ gpc' = "result"
    /\ UNCHANGED <<g, node_index_map, rows, txiter, gquit, user_sig, files>>
    /\ UNCHANGED glog
    /\ UNCHANGED <<cindexVars, pathVars, walkVars, logVars, callVars>>

\* lines 124-141: the final dump when the scan returned Ok
GResult ==
    /\ gpc = "result"
    /\ files' = FilesAfterScan(gres, files)
    /\ glog' = IF DumpsAfterScan(gres) THEN Append(glog, GEvent("final")) ELSE glog
    /\ gpc' = "done"
    /\ UNCHANGED <<g, node_index_map, rows, txiter, gquit, user_sig, gres>>
    /\ UNCHANGED <<cindexVars, pathVars, walkVars, logVars, callVars>>

GSigint ==
    /\ gpc # "done"
    /\ ~gquit
    /\ gquit' = TRUE
    /\ UNCHANGED <<g, node_index_map, rows, txiter, gpc, user_sig, gres, files>>
    /\ UNCHANGED glog
    /\ UNCHANGED <<cindexVars, pathVars, walkVars, logVars, callVars>>

\* SIGUSR1 is delivered, at any point and whatever the flag holds
GSigusr1 ==
    /\ gpc # "done"
    /\ Len(SelectSeq(glog, IsUsr1)) < MaxSignals
    /\ user_sig' = TRUE
    /\ glog' = Append(glog, GEvent("usr1"))
    /\ UNCHANGED <<g, node_index_map, rows, txiter, gpc, gquit, gres, files>>
    /\ UNCHANGED <<cindexVars, pathVars, walkVars, logVars, callVars>>

InitGraph == IdleCindex /\ InitGbuild /\ IdlePath /\ IdleWalk /\ IdleLog /\ IdleCall

NextGraph ==
    \/ GRowFails
    \/ GInterrupted
    \/ GRow
    \/ GLoadUsr
    \/ GClearUsr
    \/ GDump
    \/ GScanEnd
    \/ GResult
    \/ GSigint
    \/ GSigusr1

SpecGraph == InitGraph /\ [][NextGraph]_vars

\* the (source address, target address, txid) triples of the edges of a graph
GraphTriples(gr) ==
    {<<gr.nodes[gr.edges[k].source + 1], gr.nodes[gr.edges[k].target + 1],
       gr.edges[k].weight>> : k \in 1..Len(gr.edges)}

\* the parts of a key between its '+' signs
PartsOf(k) ==
    LET cuts == {0, Len(k) + 1} \cup {i \in 1..Len(k) : k[i] = "+"}
    IN  {SubSeq(k, pq[1] + 1, pq[2] - 1) :
            pq \in {x \in cuts \X cuts :
                       x[1] < x[2] /\ \A c \in cuts : c <= x[1] \/ c >= x[2]}}

\* the addresses of a row: the keys of the map text, each split on '+', and the
\* entries of the list text
RowAddrs(map_text, list_text) ==
    UNION {PartsOf(k) : k \in Keys(map_text)} \cup Items(list_text)

\* the union over the rows, as a set, of tx_ins x tx_outs x {txid}
ExpectedTriples ==
    UNION {RowAddrs(r.tx_in, r.dvm_in) \X RowAddrs(r.tx_out, r.dvm_out) \X {r.txid} :
              r \in RangeOf(rows)}

\* C9: when the scan has taken every row without interrupt or error, the edge triples of
\* the graph built (and dumped) are the union over the rows of tx_ins x tx_outs x {txid},
\* a set that the order of the rows does not enter.
C9_GraphTriples ==
    (gpc = "done" /\ gres.kind = "Ok") =>
       /\ txiter = Len(rows)
       /\ GraphTriples(g) = ExpectedTriples
       /\ files.written /\ files.data = g

\* a full scan of three rows with an edge from a part of a composite and an edge to
\* an address only the DVM list names
C9_Witness ==
    /\ gpc = "done"
    /\ gres.kind = "Ok"
    /\ Len(rows) = 3
    /\ \E t \in GraphTriples(g) : t[1] = AddrB
    /\ \E t \in GraphTriples(g) : t[2] = AddrH

\* the positions in the log of the SIGUSR1 deliveries, of the dumps the callback made
\* and of the dumps of either kind
UsrAt == {i \in 1..Len(glog) : glog[i].e = "usr1"}
CallbackDumpAt == {i \in 1..Len(glog) : glog[i].e = "dump"}
DumpAt == {i \in 1..Len(glog) : glog[i].e \in {"dump", "final"}}

\* C11: the final dump is made only when the scan took every row and returned Ok; when
\* the callback found the SIGINT flag set, or a row failed, the two files are left as
\* they were (never written, or as the last dump on SIGUSR1 wrote them).
C11_FinalDumpOnlyAfterFullScan ==
    /\ (\E i \in 1..Len(glog) : glog[i].e = "final") =>
          gres.kind = "Ok" /\ txiter = Len(rows)
    /\ (gpc = "done" /\ gres.kind = "Err") =>
          IF CallbackDumpAt = {} THEN files = NoFiles
          ELSE \E j \in CallbackDumpAt :
                  /\ \A k \in CallbackDumpAt : k <= j
                  /\ files.txiter = glog[j].txiter

\* the scan was interrupted after two rows and nothing was written
C11_Witness ==
    /\ gpc = "done"
    /\ gres = [kind |-> "Err", err |-> "interrupted"]
    /\ txiter = 2
    /\ Len(g.edges) > 0
    /\ files = NoFiles

\* C12: when the scan was not ended by SIGINT or an error, every SIGUSR1 delivered during
\* it, wherever the callback stood, is followed by a dump made after at least the rows
\* processed before the signal, and a dump holds the graph and the index of all rows
\* processed when it is made; the callback makes no more dumps than signals were
\* delivered before them, the flag being cleared at each.
C12_SigusrDumps ==
    /\ (gpc = "done" /\ gres.kind = "Ok") =>
          \A i \in UsrAt : \E j \in DumpAt : j > i /\ glog[j].txiter >= glog[i].txiter
    /\ files.written =>
          /\ \E j \in DumpAt : glog[j].txiter = files.txiter
          /\ files.txiter = txiter => files.data = g /\ files.meta = node_index_map
    /\ \A j \in CallbackDumpAt :
          Cardinality({k \in CallbackDumpAt : k <= j}) <= Cardinality({i \in UsrAt : i < j})

\* a full scan of three rows with a signal delivered between the load and the store
\* of the flag, and one dump made by the callback before the last row
C12_Witness ==
    /\ gpc = "done"
    /\ gres.kind = "Ok"
    /\ Len(rows) = 3
    /\ \E i \in UsrAt : glog[i].at = "clear"
    /\ Cardinality(CallbackDumpAt) = 1
    /\ \E j \in CallbackDumpAt : glog[j].txiter < 3

----------------------------------------------------------------------------
(* The shortest-path query: src/spath.rs path_find_astar_fixed_cost and src/gpath.rs
   run, over petgraph::algo::astar.  One (src, dest) pair is followed.  The txs table
   holds a row for the txid of every edge: the graph was built from it, and no
   statement of the indexer deletes a tx row. *)

\* the nodes of the loaded graph
PathNodes == 5

PathAddrs == <<"a0", "a1", "a2", "a3", "a4", "a5", "a6">>

Edge(a, b, txid) == [source |-> a, target |-> b, weight |-> txid]

\* the edges a loaded graph may have, in the order they were added: two routes from
\* node 0 to node 4 (of two and of three hops), a cycle, a self loop, a parallel edge
EdgePool ==
    <<Edge(0, 1, "t1"), Edge(1, 4, "t2"), Edge(0, 2, "t3"), Edge(2, 3, "t4"),
      Edge(3, 4, "t5"), Edge(4, 0, "t6"), Edge(1, 1, "t7"), Edge(0, 1, "t8")>>

RECURSIVE Picked(_, _, _)
\* the edges of pool at the positions in S, in pool order
Picked(pool, S, i) ==
    IF i > Len(pool) THEN << >>
    ELSE (IF i \in S THEN <<pool[i]>> ELSE << >>) \o Picked(pool, S, i + 1)

\* the columns of a txs row that the graph tools read
TxData(tx_type, swap_from, swap_amt, icx_btc_exp_amt) ==
    [tx_type |-> tx_type, swap_from |-> swap_from, swap_amt |-> swap_amt,
     icx_btc_exp_amt |-> icx_btc_exp_amt]

Line(kind) == [kind |-> kind, i |-> 0, tx_type |-> "", src |-> "", dest |-> "", tx |-> ""]

InitPathQuery ==
    /\ ptool \in {"spath", "gpath"}
    /\ \E S \in SUBSET (1..Len(EdgePool)) :
          pg = [nodes |-> [i \in 1..PathNodes |-> PathAddrs[i]],
                edges |-> Picked(EdgePool, S, 1),
                index |-> [a \in {PathAddrs[i] : i \in 1..PathNodes} |->
                              (CHOOSE i \in 1..PathNodes : PathAddrs[i] = a) - 1]]
    /\ ptxs = [t \in {EdgePool[k].weight : k \in 1..Len(EdgePool)} |->
                  TxData("aa", "", EmptyStr, EmptyStr)]
    /\ psrc \in {PathAddrs[i] : i \in 1..PathNodes} \cup {"zz"}
    /\ pdest \in {PathAddrs[i] : i \in 1..PathNodes} \cup {"zz"}
    /\ pquit = FALSE
    /\ visit_next = {}
    /\ scores = << >>
    /\ estimate_scores = << >>
    /\ predecessor = << >>
    /\ pushes = 0
    /\ paths = NoPaths
    /\ ppc = "start"
    /\ pres = [kind |-> "none", err |-> ""]
    /\ emitted = << >>

\* HashMap insert
Put(f, k, v) == IF k \in DOMAIN f THEN [f EXCEPT ![k] = v] ELSE f @@ (k :> v)

\* an edge costs nothing
EdgeCostFree(e) == 0

\* the closures given to astar: |_edge| 1 and |_node| 0
EdgeCost(e) == 1
EstimateCost(n) == 0

RECURSIVE OutgoingFrom(_, _, _)
\* graph.edges(a): the outgoing edges of a, the one added last first
OutgoingFrom(gr, a, k) ==
    IF k = 0 THEN << >>
    ELSE (IF gr.edges[k].source = a THEN <<gr.edges[k]>> ELSE << >>)
            \o OutgoingFrom(gr, a, k - 1)
Outgoing(gr, a) == OutgoingFrom(gr, a, Len(gr.edges))

\* visit_next.pop(): an entry of the least score; which one among equals is the
\* heap's affair
MinScored(heap) == {x \in heap : \A y \in heap : x.score <= y.score}

RECURSIVE Relax(_, _, _, _)
\* the "for edge in graph.edges(node)" loop of astar; st is [scores, predecessor,
\* visit_next, pushes]
Relax(st, node, node_score, out) ==
    IF out = << >> THEN st
    ELSE IF Head(out).target \in DOMAIN st.scores
            /\ st.scores[Head(out).target] <= node_score + EdgeCost(Head(out))
    THEN Relax(st, node, node_score, Tail(out))
    ELSE Relax([scores |-> Put(st.scores, Head(out).target, node_score + EdgeCost(Head(out))),
                predecessor |-> Put(st.predecessor, Head(out).target, node),
                visit_next |-> st.visit_next \cup
                    {[score |-> node_score + EdgeCost(Head(out))
                                   + EstimateCost(Head(out).target),
                      node |-> Head(out).target, seq |-> st.pushes]},
                pushes |-> st.pushes + 1],
               node, node_score, Tail(out))

RECURSIVE ReconstructPath(_, _)
\* path_tracker.reconstruct_path_to(last)
ReconstructPath(pred, last) ==
    IF last \in DOMAIN pred THEN Append(ReconstructPath(pred, pred[last]), last)
    ELSE <<last>>

\* sql_store.get_tx_data(tx_id): the txs row of the txid, if there is one
get_tx_data(txs, tx_id) ==
    IF tx_id \in DOMAIN txs THEN Some(txs[tx_id])
    ELSE [some |-> FALSE, v |-> TxData("", "", EmptyStr, EmptyStr)]

\* g.find_edge(a, b): the first outgoing edge of a that ends in b
FindEdge(out, b) ==
    out[CHOOSE k \in 1..Len(out) : out[k].target = b /\ \A j \in 1..(k - 1) : out[j].target # b]

IsHop(l) == l.kind = "hop"
Hops == SelectSeq(emitted, IsHop)

\* spath lines 123-126: the flag is set when the pair is taken up
PathInterrupted ==
    /\ ppc = "start"
    /\ ptool = "spath"
    /\ pquit
    /\ pres' = [kind |-> "Err", err |-> "interrupted"]
    /\ ppc' = "done"
    /\ UNCHANGED <<ptool, pg, ptxs, psrc, pdest, pquit, visit_next, scores,
                   estimate_scores, predecessor, pushes, paths, emitted>>
    /\ UNCHANGED <<cindexVars, gbuildVars, walkVars, logVars, callVars>>

\* spath lines 129-138 (log and continue), gpath lines 39-46 (return the error)
PathMissing ==
    /\ ppc = "start"
    /\ ptool = "gpath" \/ ~pquit
    /\ psrc \notin DOMAIN pg.index \/ pdest \notin DOMAIN pg.index
    /\ \E what \in {IF psrc \notin DOMAIN pg.index THEN "src not found"
                    ELSE "dest not found"} :
          IF ptool = "spath"
          THEN /\ emitted' = Append(emitted, Line(what))
               /\ pres' = [kind |-> "Ok", err |-> ""]
          ELSE /\ pres' = [kind |-> "Err", err |-> what]
               /\ UNCHANGED emitted
    /\ ppc' = "done"
    /\ UNCHANGED <<ptool, pg, ptxs, psrc, pdest, pquit, visit_next, scores,
                   estimate_scores, predecessor, pushes, paths>>
    /\ UNCHANGED <<cindexVars, gbuildVars, walkVars, logVars, callVars>>

\* astar is entered: the start is scored 0 and pushed
PathBegin ==
    /\ ppc = "start"
    /\ ptool = "gpath" \/ ~pquit
    /\ psrc \in DOMAIN pg.index
    /\ pdest \in DOMAIN pg.index
    /\ scores' = (pg.index[psrc] :> 0)
    /\ visit_next' = {[score |-> EstimateCost(pg.index[psrc]), node |-> pg.index[psrc],
                       seq |-> 0]}
    /\ pushes' = 1
    /\ ppc' = "search"
    /\ UNCHANGED <<ptool, pg, ptxs, psrc, pdest, pquit, estimate_scores, predecessor,
                   paths, pres, emitted>>
    /\ UNCHANGED <<cindexVars, gbuildVars, walkVars, logVars, callVars>>

\* the popped node is the goal: astar returns the path to it
AstarGoal ==
    /\ ppc = "search"
    /\ \E top \in MinScored(visit_next) :
          /\ top.node = pg.index[pdest]
          /\ paths' = Some(ReconstructPath(predecessor, top.node))
          /\ visit_next' = visit_next \ {top}
    /\ ppc' = "emit"
    /\ UNCHANGED <<ptool, pg, ptxs, psrc, pdest, pquit, scores, estimate_scores,
                   predecessor, pushes, pres, emitted>>
    /\ UNCHANGED <<cindexVars, gbuildVars, walkVars, logVars, callVars>>

\* the popped node is not the goal: if it was visited with an estimate no worse,
\* continue; else it is visited and its outgoing edges relaxed
AstarVisit ==
    /\ ppc = "search"
    /\ \E top \in MinScored(visit_next) :
          /\ top.node # pg.index[pdest]
          /\ IF top.node \in DOMAIN estimate_scores /\ estimate_scores[top.node] <= top.score
             THEN /\ visit_next' = visit_next \ {top}
                  /\ UNCHANGED <<scores, estimate_scores, predecessor, pushes>>
             ELSE /\ estimate_scores' = Put(estimate_scores, top.node, top.score)
                  /\ \E st \in {Relax([scores |-> scores, predecessor |-> predecessor,
                                       visit_next |-> visit_next \ {top},
                                       pushes |-> pushes],
                                      top.node, scores[top.node],
                                      Outgoing(pg, top.node))} :
                        /\ scores' = st.scores
                        /\ predecessor' = st.predecessor
                        /\ visit_next' = st.visit_next
                        /\ pushes' = st.pushes
    /\ UNCHANGED <<ptool, pg, ptxs, psrc, pdest, pquit, paths, ppc, pres, emitted>>
    /\ UNCHANGED <<cindexVars, gbuildVars, walkVars, logVars, callVars>>

\* the heap is empty: astar returns None, "no path found" is logged
AstarNone ==
    /\ ppc = "search"
    /\ visit_next = {}
    /\ paths' = NoPaths
    /\ emitted' = Append(emitted, Line("no path found"))
    /\ ppc' = "complete"
    /\ UNCHANGED <<ptool, pg, ptxs, psrc, pdest, pquit, visit_next, scores,
                   estimate_scores, predecessor, pushes, pres>>
    /\ UNCHANGED <<cindexVars, gbuildVars, walkVars, logVars, callVars>>

\* one turn of "for (i, node_idx) in path.windows(2).enumerate()": the edge, its tx
\* row, the hop line; a missing tx row returns the error
EmitHop ==
    /\ ppc = "emit"
    /\ Len(Hops) < Len(paths.v) - 1
    /\ \E i \in {Len(Hops)} :
       \E edge \in {FindEdge(Outgoing(pg, paths.v[i + 1]), paths.v[i + 2])} :
       \E tx \in {get_tx_data(ptxs, edge.weight)} :
          IF tx.some
          THEN /\ emitted' = Append(emitted,
                      [kind |-> "hop", i |-> i,
                       tx_type |-> TxTypeToString(TxTypeFromDisplay(tx.v.tx_type)),
                       src |-> pg.nodes[paths.v[i + 1] + 1],
                       dest |-> pg.nodes[paths.v[i + 2] + 1],
                       tx |-> edge.weight])
               /\ UNCHANGED <<ppc, pres>>
          ELSE /\ pres' = [kind |-> "Err", err |-> "none"]
               /\ ppc' = "done"
               /\ UNCHANGED emitted
    /\ UNCHANGED <<ptool, pg, ptxs, psrc, pdest, pquit, visit_next, scores,
                   estimate_scores, predecessor, pushes, paths>>
    /\ UNCHANGED <<cindexVars, gbuildVars, walkVars, logVars, callVars>>

\* the hops are out, or there were none to put out: Ok(())
PathComplete ==
    /\ \/ ppc = "complete"
       \/ ppc = "emit" /\ Len(Hops) = Len(paths.v) - 1
    /\ pres' = [kind |-> "Ok", err |-> ""]
    /\ ppc' = "done"
    /\ UNCHANGED <<ptool, pg, ptxs, psrc, pdest, pquit, visit_next, scores,
                   estimate_scores, predecessor, pushes, paths, emitted>>
    /\ UNCHANGED <<cindexVars, gbuildVars, walkVars, logVars, callVars>>

PSigint ==
    /\ ppc # "done"
    /\ ~pquit
    /\ pquit' = TRUE
    /\ UNCHANGED <<ptool, pg, ptxs, psrc, pdest, visit_next, scores, estimate_scores,
                   predecessor, pushes, paths, ppc, pres, emitted>>
    /\ UNCHANGED <<cindexVars, gbuildVars, walkVars, logVars, callVars>>

InitPath == IdleCindex /\ IdleGbuild /\ InitPathQuery /\ IdleWalk /\ IdleLog /\ IdleCall

NextPath ==
    \/ PathInterrupted
    \/ PathMissing
    \/ PathBegin
    \/ AstarGoal
    \/ AstarVisit
    \/ AstarNone
    \/ EmitHop
    \/ PathComplete
    \/ PSigint

SpecPath == InitPath /\ [][NextPath]_vars

\* the targets of the edges that leave a node of S
Successors(gr, S) ==
    {gr.edges[k].target : k \in {j \in 1..Len(gr.edges) : gr.edges[j].source \in S}}

RECURSIVE BfsFrom(_, _, _, _, _)
\* breadth-first layers: the number of the layer t lies in, 0 - 1 if it lies in none
BfsFrom(gr, frontier, seen, d, t) ==
    IF t \in frontier THEN d
    ELSE IF frontier = {} THEN 0 - 1
    ELSE BfsFrom(gr, Successors(gr, frontier) \ (seen \cup frontier), seen \cup frontier,
                 d + 1, t)

BfsDistance(gr, s, t) == BfsFrom(gr, {s}, {}, 0, t)

NoPathLines == SelectSeq(emitted, LAMBDA l : l.kind = "no path found")

\* the hop lines are a walk of d edges of the graph from psrc to pdest
HopsWalk(d) ==
    /\ Len(Hops) = d
    /\ NoPathLines = << >>
    /\ d > 0 => Hops[1].src = psrc /\ Hops[d].dest = pdest
    /\ d = 0 => psrc = pdest
    /\ \A i \in 1..d :
          /\ Hops[i].i = i - 1
          /\ i < d => Hops[i].dest = Hops[i + 1].src
          /\ \E k \in 1..Len(pg.edges) :
                /\ pg.nodes[pg.edges[k].source + 1] = Hops[i].src
                /\ pg.nodes[pg.edges[k].target + 1] = Hops[i].dest
                /\ pg.edges[k].weight = Hops[i].tx

\* what the query is to have emitted for a pair at breadth-first distance d
EmittedFor(d) ==
    IF d >= 0 THEN HopsWalk(d)
    ELSE Hops = << >> /\ Len(NoPathLines) = 1

\* C10: for src and dest both in node_index, once the query has returned Ok, the hops
\* emitted are a path of as many hops as the breadth-first distance from src to dest when
\* dest is reachable, and otherwise no hop is emitted and "no path found" is.
C10_HopsAreBfsDistance ==
    (ppc = "done" /\ pres.kind = "Ok"
        /\ psrc \in DOMAIN pg.index /\ pdest \in DOMAIN pg.index) =>
       EmittedFor(BfsDistance(pg, pg.index[psrc], pg.index[pdest]))

\* the two-hop route was emitted in the graph that also has the three-hop route
C10_Witness ==
    /\ ppc = "done"
    /\ pres.kind = "Ok"
    /\ pg.edges = EdgePool
    /\ psrc = "a0"
    /\ pdest = "a4"
    /\ Len(Hops) = 2

----------------------------------------------------------------------------
(* gwalk: src/graphwalker.rs run.  The walk goes level by level from the node of
   args.addr over the outgoing edges of the loaded graph, adding up the btc swaps
   and the ICX claims of the txs on the edges. *)

\* line 125
max_levels == 20

\* a graph of names and edges as load_graph returns it with its node_index_map
GraphOf(names, edges) ==
    [nodes |-> names,
     edges |-> edges,
     index |-> [a \in RangeOf(names) |-> (CHOOSE i \in 1..Len(names) : names[i] = a) - 1]]

\* a path of max_levels + 2 nodes named "0", "1", ...: longer than the walk may go
ChainGraph ==
    GraphOf([i \in 1..(max_levels + 2) |-> ToString(i - 1)],
            [i \in 1..(max_levels + 1) |-> Edge(i - 1, i, "t1")])

\* the graphs a walk is run on: the ones of the path queries, and the long path
WalkGraphs ==
    {GraphOf([i \in 1..PathNodes |-> PathAddrs[i]], Picked(EdgePool, S, 1)) :
        S \in SUBSET (1..Len(EdgePool))} \cup {ChainGraph}

\* the txs rows of the edges: transfers, btc and dfi pool swaps, ICX claims with an
\* amount from the log that parses and with one that does not (the amounts have few
\* fractional digits, for the sums to stay small)
WalkTxs ==
    [t \in {EdgePool[k].weight : k \in 1..Len(EdgePool)} |->
        CASE t = "t2" -> TxData("ps", "btc", <<"2">>, EmptyStr)
          [] t = "t3" -> TxData("icx-claim", "", EmptyStr, <<"1", ".", "5">>)
          [] t = "t4" -> TxData("ps", "dfi", <<"3", ".", "0", "0">>, EmptyStr)
          [] t = "t5" -> TxData("icx-claim", "", EmptyStr, EmptyStr)
          [] t = "t6" -> TxData("ps", "btc", <<"1", ".", "2", "5">>, EmptyStr)
          [] t = "t8" -> TxData("icx-claim", "", EmptyStr, <<"2">>)
          [] OTHER    -> TxData("aa", "", EmptyStr, EmptyStr)]

InitWalkArgs ==
    /\ wg \in WalkGraphs
    /\ waddr \in {"a0", "a1", "zz", "0"}
    /\ graph_ignore_addr_list \in {{}, {"a4"}, {"a1", "a2"}}
    /\ wtxs = WalkTxs
    /\ wquit = FALSE
    /\ wpc = "icx"
    /\ icx_scan = "none"
    /\ level = 0
    /\ visited = {}
    /\ current_level = << >>
    /\ next_level = << >>
    /\ wpos = 1
    /\ total_icx = BigZero
    /\ total_btc_swaps = BigZero
    /\ wres = [kind |-> "none", err |-> ""]
    /\ expanded = << >>

IsDigit(c) == \E d \in 0..9 : Digit(d) = c
DigitVal(c) == CHOOSE d \in 0..9 : Digit(d) = c

RECURSIVE Pow10(_)
Pow10(n) == IF n = 0 THEN 1 ELSE 10 * Pow10(n - 1)

RECURSIVE DigitsValue(_, _)
\* the number the digits of s[1..k] spell, the point passed over
DigitsValue(s, k) ==
    IF k = 0 THEN 0
    ELSE IF s[k] = "." THEN DigitsValue(s, k - 1)
    ELSE 10 * DigitsValue(s, k - 1) + DigitVal(s[k])

\* BigDecimal::from_str on plain decimal text: digits with at most one point
BigDecimalFromStr(s) ==
    LET points == {i \in 1..Len(s) : s[i] = "."}
    IN  IF /\ \A i \in 1..Len(s) : s[i] = "." \/ IsDigit(s[i])
           /\ Cardinality(points) <= 1
           /\ Len(s) > Cardinality(points)
        THEN Okay(Big(DigitsValue(s, Len(s)),
                      IF points = {} THEN 0
                      ELSE Len(s) - (CHOOSE i \in points : TRUE)))
        ELSE Fail("ParseBigDecimal")

\* BigDecimal +=
BigAdd(a, b) ==
    IF a.scale >= b.scale
    THEN Big(a.int + b.int * Pow10(a.scale - b.scale), a.scale)
    ELSE Big(a.int * Pow10(b.scale - a.scale) + b.int, b.scale)

\* the walk's accumulators over the edges of one node
WalkAcc(nl, icx, btc, e) == [next_level |-> nl, total_icx |-> icx, total_btc_swaps |-> btc, err |-> e]

\* a pool swap from any token
FromAnyToken(tx) == TRUE

\* line 172: tx.swap_from == "btc"
FromBtc(tx) == tx.swap_from = "btc"

\* lines 170-200: the match on the type of the edge's tx, and the push of the target
WalkTyped(st, x, tx, tx_type) ==
    IF tx_type.variant = "PoolSwap"
    THEN IF FromBtc(tx)
         THEN IF BigDecimalFromStr(tx.swap_amt).ok
              THEN WalkAcc(Append(st.next_level, x.target), st.total_icx,
                           BigAdd(st.total_btc_swaps, BigDecimalFromStr(tx.swap_amt).v), "")
              ELSE WalkAcc(st.next_level, st.total_icx, st.total_btc_swaps, "unwrap")
         ELSE WalkAcc(Append(st.next_level, x.target), st.total_icx, st.total_btc_swaps, "")
    ELSE IF tx_type.variant = "ICXClaimDFCHTLC"
    THEN IF BigDecimalFromStr(tx.icx_btc_exp_amt).ok
         THEN WalkAcc(Append(st.next_level, x.target),
                      BigAdd(st.total_icx, BigDecimalFromStr(tx.icx_btc_exp_amt).v),
                      st.total_btc_swaps, "")
         ELSE WalkAcc(Append(st.next_level, x.target), st.total_icx, st.total_btc_swaps, "")
    ELSE WalkAcc(Append(st.next_level, x.target), st.total_icx, st.total_btc_swaps, "")

\* lines 150-168: the tx of the edge is looked up; an ignored target is passed over
WalkEdge(st, x, gr, txs, ignore) ==
    IF ~get_tx_data(txs, x.weight).some
    THEN WalkAcc(st.next_level, st.total_icx, st.total_btc_swaps, "none")
    ELSE IF gr.nodes[x.target + 1] \in ignore THEN st
    ELSE WalkTyped(st, x, get_tx_data(txs, x.weight).v,
                   TxTypeFromDisplay(get_tx_data(txs, x.weight).v.tx_type))

RECURSIVE WalkEdges(_, _, _, _, _, _)
\* lines 149-202: the loop over g.edges(current_node), ended by the first error
WalkEdges(st, out, k, gr, txs, ignore) ==
    IF k > Len(out) \/ st.err # "" THEN st
    ELSE WalkEdges(WalkEdge(st, out[k], gr, txs, ignore), out, k + 1, gr, txs, ignore)

\* lines 78-103: the scan of the icx-claim rows; its error is logged and the run goes on
WIcxScan ==
    /\ wpc = "icx"
    /\ icx_scan' = IF wquit THEN "interrupted" ELSE "ok"
    /\ wpc' = "center"
    /\ UNCHANGED <<wg, waddr, graph_ignore_addr_list, wtxs, wquit, level, visited,
                   current_level, next_level, wpos, total_icx, total_btc_swaps, wres>>
    /\ UNCHANGED <<cindexVars, gbuildVars, pathVars, logVars, callVars>>
    /\ UNCHANGED expanded

\* lines 117-127
WCenter ==
    /\ wpc = "center"
    /\ IF waddr \in DOMAIN wg.index
       THEN /\ current_level' = <<wg.index[waddr]>>
            /\ wpc' = "level"
            /\ UNCHANGED wres
       ELSE /\ wres' = [kind |-> "Err", err |-> "node_index_map"]
            /\ wpc' = "done"
            /\ UNCHANGED current_level
    /\ UNCHANGED <<wg, waddr, graph_ignore_addr_list, wtxs, wquit, icx_scan, level,
                   visited, next_level, wpos, total_icx, total_btc_swaps>>
    /\ UNCHANGED <<cindexVars, gbuildVars, pathVars, logVars, callVars>>
    /\ UNCHANGED expanded

\* for level in 0..max_levels, always
LevelLoopUncapped(l) == TRUE

\* line 129: for level in 0..max_levels
LevelLoopContinues(l) == l < max_levels

\* lines 129-136: the head of a level, and lines 210-211 when the range is used up
WLevel ==
    /\ wpc = "level"
    /\ IF ~LevelLoopContinues(level)
       THEN /\ wres' = [kind |-> "Ok", err |-> ""]
            /\ wpc' = "done"
            /\ UNCHANGED <<next_level, wpos>>
       ELSE /\ next_level' = << >>
            /\ wpos' = 1
            /\ IF wquit
               THEN /\ wres' = [kind |-> "Err", err |-> "interrupted"]
                    /\ wpc' = "done"
               ELSE /\ wpc' = "node"
                    /\ UNCHANGED wres
    /\ UNCHANGED <<wg, waddr, graph_ignore_addr_list, wtxs, wquit, icx_scan, level,
                   visited, current_level, total_icx, total_btc_swaps>>
    /\ UNCHANGED <<cindexVars, gbuildVars, pathVars, logVars, callVars>>
    /\ UNCHANGED expanded

\* a check that finds no node visited
VisitedContainsNone(v, current_node) == FALSE

\* line 144: visited.contains(&current_node)
VisitedContains(v, current_node) == current_node \in v

\* lines 138-203: one node of current_level
WNode ==
    /\ wpc = "node"
    /\ wpos <= Len(current_level)
    /\ \E current_node \in {current_level[wpos]} :
          IF wquit
          THEN /\ wres' = [kind |-> "Err", err |-> "interrupted"]
               /\ wpc' = "done"
               /\ UNCHANGED <<visited, next_level, wpos, total_icx, total_btc_swaps,
                              expanded>>
          ELSE IF VisitedContains(visited, current_node)
          THEN /\ wpos' = wpos + 1
               /\ UNCHANGED <<visited, next_level, total_icx, total_btc_swaps, wres, wpc,
                              expanded>>
          ELSE \E st \in {WalkEdges(WalkAcc(next_level, total_icx, total_btc_swaps, ""),
                                    Outgoing(wg, current_node), 1, wg, wtxs,
                                    graph_ignore_addr_list)} :
                  /\ visited' = visited \cup {current_node}
                  /\ expanded' = Append(expanded, current_node)
                  /\ next_level' = st.next_level
                  /\ total_icx' = st.total_icx
                  /\ total_btc_swaps' = st.total_btc_swaps
                  /\ IF st.err = ""
                     THEN /\ wpos' = wpos + 1
                          /\ UNCHANGED <<wres, wpc>>
                     ELSE /\ wres' = [kind |-> IF st.err = "unwrap" THEN "Panic" ELSE "Err",
                                      err |-> st.err]
                          /\ wpc' = "done"
                          /\ UNCHANGED wpos
    /\ UNCHANGED <<wg, waddr, graph_ignore_addr_list, wtxs, wquit, icx_scan, level,
                   current_level>>
    /\ UNCHANGED <<cindexVars, gbuildVars, pathVars, logVars, callVars>>

\* lines 205-211: the end of a level
WLevelEnd ==
    /\ wpc = "node"
    /\ wpos > Len(current_level)
    /\ IF next_level = << >>
       THEN /\ wres' = [kind |-> "Ok", err |-> ""]
            /\ wpc' = "done"
            /\ UNCHANGED <<current_level, level>>
       ELSE /\ current_level' = next_level
            /\ level' = level + 1
            /\ wpc' = "level"
            /\ UNCHANGED wres
    /\ UNCHANGED <<wg, waddr, graph_ignore_addr_list, wtxs, wquit, icx_scan, visited,
                   next_level, wpos, total_icx, total_btc_swaps>>
    /\ UNCHANGED <<cindexVars, gbuildVars, pathVars, logVars, callVars>>
    /\ UNCHANGED expanded

\* SIGINT: signal_hook sets the flag, lines 53-54
WSigint ==
    /\ wpc # "done"
    /\ ~wquit
    /\ wquit' = TRUE
    /\ UNCHANGED <<wg, waddr, graph_ignore_addr_list, wtxs, wpc, icx_scan, level, visited,
                   current_level, next_level, wpos, total_icx, total_btc_swaps, wres>>
    /\ UNCHANGED <<cindexVars, gbuildVars, pathVars, logVars, callVars>>
    /\ UNCHANGED expanded

InitWalk == IdleCindex /\ IdleGbuild /\ IdlePath /\ InitWalkArgs /\ IdleLog /\ IdleCall

\* the steps of run itself
WalkStep ==
    \/ WIcxScan
    \/ WCenter
    \/ WLevel
    \/ WNode
    \/ WLevelEnd

NextWalk ==
    \/ WalkStep
    \/ WSigint

SpecWalk == InitWalk /\ [][NextWalk]_vars

\* run is the only thread of the process: it goes on for as long as it has a step to take
SpecWalkFair == SpecWalk /\ WF_vars(WalkStep)

\* the walk has started no more levels than max_levels, starts none on an empty queue,
\* and has ended well only on an empty next level or with the levels used up
LevelsBounded ==
    /\ level <= max_levels
    /\ wpc = "level" => current_level # << >>
    /\ (wpc = "done" /\ wres.kind = "Ok") =>
          \/ next_level = << >> /\ level < max_levels
          \/ level = max_levels

\* C16: on every graph, cycles, self loops and parallel edges included, the walk comes
\* to its end, and it ends as soon as a level leaves the next level empty or after at
\* most max_levels = 20 levels.
C16_WalkTerminates == <>(wpc = "done") /\ []LevelsBounded

\* the walk over the long path used up its 20 levels with nodes still queued
C16_Witness ==
    /\ wpc = "done"
    /\ wres.kind = "Ok"
    /\ wg = ChainGraph
    /\ level = max_levels
    /\ next_level # << >>

\* a polling loop of the walk found the SIGINT flag set: the callback of the ICX scan
\* (lines 79-82) or the level loop (lines 133-142)
WalkSawSigint == icx_scan = "interrupted" \/ wres.err = "interrupted"

\* the pair loop of spath found the SIGINT flag set (spath.rs 123-126)
PathSawSigint == ptool = "spath" /\ pres.err = "interrupted"

\* C15: a command whose polling loop has seen SIGINT ends successfully: run returns Ok.
\* Stated here for gwalk (with its center in the graph) and for spath.
C15_Claimed ==
    /\ (wpc = "done" /\ WalkSawSigint /\ waddr \in DOMAIN wg.index) => wres.kind = "Ok"
    /\ (ppc = "done" /\ PathSawSigint) => pres.kind = "Ok"

\* the walk was interrupted in its second level or later, after a full ICX scan
C15_Witness ==
    /\ wpc = "done"
    /\ icx_scan = "ok"
    /\ level >= 1
    /\ visited # {}
    /\ wres = [kind |-> "Err", err |-> "interrupted"]

\* spath was interrupted before its pair was taken up
C15_SpathWitness ==
    /\ ppc = "done"
    /\ ptool = "spath"
    /\ pquit
    /\ pres = [kind |-> "Err", err |-> "interrupted"]

----------------------------------------------------------------------------
(* logparse: src/logparse.rs process_log_file.  A line is the sequence of its pieces
   of text: words, matcher tags, braces, and inside an object the field names each
   followed by its value; "<ff>" stands for a byte that is not UTF-8.  The structs
   LogEntry, LogEntryMap, LogIcxData, LogIcxCalcData and LogSwapData are in no file
   of src/: a record is taken with the fields its object has, and it needs the
   fields the index names for its kind. *)

\* the lines of the log file
MaxLines == 3

\* lines 21-26: the default matchers
log_icx_matcher == "ICX:"
log_icx_calc_matcher == "ICXCalc:"
log_swap_matcher == "SwapResult:"

Obj(fields) == <<"{">> \o fields \o <<"}">>
IcxObj(claim_tx, amount) ==
    Obj(<<"order_tx", "O", "offer_tx", "Of", "dfchtlc_tx", "D", "claim_tx", claim_tx,
          "address", "A", "amount", amount>>)
CalcObj(calc_tx, v) == Obj(<<"calc_tx", calc_tx, "v", v>>)
SwapObj(txid, v) == Obj(<<"txid", txid, "v", v>>)

\* the fields an object must have to be a record of the kind
IcxFields == {"order_tx", "offer_tx", "dfchtlc_tx", "claim_tx", "address", "amount"}
CalcFields == {"calc_tx"}
SwapFields == {"txid"}

\* the lines a log file is made of
LineMenu ==
    { <<"w">>,
      <<"ICX:">> \o IcxObj("k1", "1"),
      <<"w", "ICX:">> \o IcxObj("k1", "2"),
      <<"ICX:">> \o IcxObj("k2", "1"),
      <<"ICXCalc:">> \o CalcObj("k1", "7"),
      <<"SwapResult:">> \o SwapObj("k1", "9"),
      <<"SwapResult:">> \o SwapObj("k2", "9"),
      <<"ICX:", "w">>,
      <<"ICX:">> \o CalcObj("k1", "7"),
      <<"SwapResult:", "{", "txid", "k1", "v">>,
      <<"{", "w", "}", "ICXCalc:">> \o CalcObj("k1", "8"),
      <<"SwapResult:", "ICX:">> \o IcxObj("k2", "3"),
      <<"ICXCalc:", "<ff>">> \o CalcObj("k2", "7"),
      <<"w">> \o IcxObj("k1", "4") }

RECURSIVE SeqsUpTo(_, _)
\* the sequences over S of length n at most
SeqsUpTo(S, n) ==
    IF n = 0 THEN {<< >>}
    ELSE SeqsUpTo(S, n - 1) \cup
         {Append(q, x) : q \in {r \in SeqsUpTo(S, n - 1) : Len(r) = n - 1}, x \in S}

InitLogFile ==
    /\ log_lines \in SeqsUpTo(LineMenu, MaxLines)
    /\ lineno = 0
    /\ combined_data = NoLogData
    /\ lpc = "read"
    /\ lres = [kind |-> "none", err |-> ""]

NoneData == [some |-> FALSE, v |-> << >>]

\* LogEntry::new()
LogEntryNew == [icx_data |-> NoneData, icx_calc_data |-> NoneData, swap_data |-> NoneData]

\* str::contains
Contains(line, tag) == \E i \in 1..Len(line) : line[i] = tag

\* str::find('{'): the first position, 0 for None
FindBrace(line) ==
    IF Contains(line, "{")
    THEN CHOOSE i \in 1..Len(line) : line[i] = "{" /\ \A j \in 1..(i - 1) : line[j] # "{"
    ELSE 0

\* serde_json::from_str::<T>(json_str): one object of field names and values that has
\* the fields of T, and nothing after it
FromStr(fields, json) ==
    LET n     == Len(json)
        names == {json[i] : i \in {j \in 2..(n - 1) : j % 2 = 0}}
    IN  IF /\ n >= 2 /\ n % 2 = 0
           /\ json[1] = "{" /\ json[n] = "}"
           /\ \A i \in 2..(n - 1) : json[i] \notin {"{", "}"}
           /\ Cardinality(names) = (n - 2) \div 2
           /\ fields \subseteq names
        THEN Some([f \in names |->
                     json[(CHOOSE i \in 2..(n - 1) : i % 2 = 0 /\ json[i] = f) + 1]])
        ELSE NoneData

\* lines 83-96
parse_json_line(fields, line) ==
    IF FindBrace(line) = 0 THEN NoneData
    ELSE FromStr(fields, SubSeq(line, FindBrace(line), Len(line)))

\* every entry made anew
EntryFresh(data, key) == LogEntryNew

\* combined_data.data.entry(key).or_insert_with(LogEntry::new)
EntryOrInsert(data, key) == IF key \in DOMAIN data THEN data[key] ELSE LogEntryNew

\* the count goes up whether or not the line parsed
ArmCounting(cd, parsed, key_field, sub, counter) ==
    IF parsed.some
    THEN [cd EXCEPT !.data = Put(cd.data, parsed.v[key_field],
                                 [EntryOrInsert(cd.data, parsed.v[key_field])
                                     EXCEPT ![sub] = parsed]),
                    ![counter] = @ + 1]
    ELSE [cd EXCEPT ![counter] = @ + 1]

\* one arm of the match, lines 101-108, 111-118, 121-128
Arm(cd, parsed, key_field, sub, counter) ==
    IF parsed.some
    THEN [cd EXCEPT !.data = Put(cd.data, parsed.v[key_field],
                                 [EntryOrInsert(cd.data, parsed.v[key_field])
                                     EXCEPT ![sub] = parsed]),
                    ![counter] = @ + 1]
    ELSE cd

\* lines 99-131: the first arm whose matcher the line contains
ProcessLine(cd, line) ==
    IF Contains(line, log_icx_matcher)
    THEN Arm(cd, parse_json_line(IcxFields, line), "claim_tx", "icx_data", "icx_count")
    ELSE IF Contains(line, log_icx_calc_matcher)
    THEN Arm(cd, parse_json_line(CalcFields, line), "calc_tx", "icx_calc_data",
             "icx_calc_count")
    ELSE IF Contains(line, log_swap_matcher)
    THEN Arm(cd, parse_json_line(SwapFields, line), "txid", "swap_data", "swap_count")
    ELSE cd

\* BufRead::read_line fails with InvalidData on bytes that are not UTF-8
ValidUtf8(line) == ~Contains(line, "<ff>")

\* line 98 and the body of the loop for one line
LLine ==
    /\ lpc = "read"
    /\ lineno < Len(log_lines)
    /\ IF ValidUtf8(log_lines[lineno + 1])
       THEN /\ combined_data' = ProcessLine(combined_data, log_lines[lineno + 1])
            /\ lineno' = lineno + 1
            /\ UNCHANGED <<lpc, lres>>
       ELSE /\ lres' = [kind |-> "Err", err |-> "stream did not contain valid UTF-8"]
            /\ lpc' = "done"
            /\ UNCHANGED <<combined_data, lineno>>
    /\ UNCHANGED log_lines
    /\ UNCHANGED <<cindexVars, gbuildVars, pathVars, walkVars, callVars>>

\* line 98 at the end of the file, line 135
LEof ==
    /\ lpc = "read"
    /\ lineno = Len(log_lines)
    /\ lres' = [kind |-> "Ok", err |-> ""]
    /\ lpc' = "done"
    /\ UNCHANGED <<log_lines, lineno, combined_data>>
    /\ UNCHANGED <<cindexVars, gbuildVars, pathVars, walkVars, callVars>>

InitLog == IdleCindex /\ IdleGbuild /\ IdlePath /\ IdleWalk /\ InitLogFile /\ IdleCall

NextLog ==
    \/ LLine
    \/ LEof

SpecLog == InitLog /\ [][NextLog]_vars

Subs == {"icx_data", "icx_calc_data", "swap_data"}

\* the kind of a line, named by the sub-record it is for
LineKind(line) ==
    IF Contains(line, log_icx_matcher) THEN "icx_data"
    ELSE IF Contains(line, log_icx_calc_matcher) THEN "icx_calc_data"
    ELSE IF Contains(line, log_swap_matcher) THEN "swap_data"
    ELSE "none"

KeyField(sub) ==
    CASE sub = "icx_data" -> "claim_tx"
      [] sub = "icx_calc_data" -> "calc_tx"
      [] sub = "swap_data" -> "txid"

FieldsOf(sub) ==
    CASE sub = "icx_data" -> IcxFields
      [] sub = "icx_calc_data" -> CalcFields
      [] sub = "swap_data" -> SwapFields

\* the record a line of a kind parses to
RecordOf(line) == parse_json_line(FieldsOf(LineKind(line)), line)

\* the lines read so far that are of the kind, parse, and have the key
Hits(sub, key) ==
    {i \in 1..lineno : /\ LineKind(log_lines[i]) = sub
                       /\ RecordOf(log_lines[i]).some
                       /\ RecordOf(log_lines[i]).v[KeyField(sub)] = key}

Last(S) == CHOOSE i \in S : \A j \in S : j <= i

\* every sub-record is that of the last line of its kind and key, if there is one
LastLineWins ==
    \A key \in {"k1", "k2"} \cup DOMAIN combined_data.data : \A sub \in Subs :
       IF Hits(sub, key) = {}
       THEN key \in DOMAIN combined_data.data => ~combined_data.data[key][sub].some
       ELSE /\ key \in DOMAIN combined_data.data
            /\ combined_data.data[key][sub] = RecordOf(log_lines[Last(Hits(sub, key))])

\* a line leaves the sub-records of the kinds that are not its own as they were
OtherKindsKept ==
    lineno' = lineno + 1 =>
       \A key \in DOMAIN combined_data.data : \A sub \in Subs :
          LineKind(log_lines[lineno + 1]) # sub =>
             /\ key \in DOMAIN combined_data'.data
             /\ combined_data'.data[key][sub] = combined_data.data[key][sub]

\* C17: after any sequence of lines, for each key and each of the three kinds the
\* sub-record of the entry is the record of the last line of that kind that parsed
\* with that key, and a line of one kind never changes or removes the sub-records of
\* the other two kinds under the same key.
C17_LastLineWins == []LastLineWins /\ [][OtherKindsKept]_vars

\* an ICX record was overwritten by a later one for the same key, and the entry got
\* a record of another kind as well
C17_Witness ==
    /\ lpc = "done"
    /\ lineno = 3
    /\ Cardinality(Hits("icx_data", "k1")) = 2
    /\ Hits("icx_calc_data", "k1") # {}
    /\ combined_data.data["k1"].icx_data.v["amount"] = "2"
    /\ combined_data.data["k1"].icx_calc_data.some

\* a line with none of the tags, or one whose suffix from the first brace is missing
\* or is no object of the kind's fields
Rejected(line) == LineKind(line) = "none" \/ ~RecordOf(line).some

\* a rejected line changes neither the map nor the counts, and the next line is read
RejectedLineSkipped ==
    (/\ lpc = "read"
     /\ lineno < Len(log_lines)
     /\ ValidUtf8(log_lines[lineno + 1])
     /\ Rejected(log_lines[lineno + 1])) =>
        /\ combined_data' = combined_data
        /\ lineno' = lineno + 1
        /\ lpc' = "read"

\* the lines up to the first that is not UTF-8, all of them if there is none
Readable ==
    IF \A i \in 1..Len(log_lines) : ValidUtf8(log_lines[i]) THEN Len(log_lines)
    ELSE (CHOOSE i \in 1..Len(log_lines) :
             /\ ~ValidUtf8(log_lines[i])
             /\ \A j \in 1..(i - 1) : ValidUtf8(log_lines[j])) - 1

\* process_log_file returns Ok after the last line unless a line is not UTF-8, and
\* then it returns the error of read_line at that line
EndsByEncoding ==
    lpc = "done" =>
       /\ lineno = Readable
       /\ lres.kind = (IF Readable = Len(log_lines) THEN "Ok" ELSE "Err")

\* C18 (amended): a UTF-8 line with a tag whose suffix from the first brace is not
\* JSON of the kind (or that has no brace), and a UTF-8 line with no tag, leave the
\* map and the three counts unchanged and the next line is read; process_log_file
\* returns an error for the content of a line only when the line is not UTF-8.
C18_RejectedLinesSkipped == [][RejectedLineSkipped]_vars /\ []EndsByEncoding

\* C18 as claimed: process_log_file never returns an error because of what a line
\* holds, every line is read
C18_Claimed == lpc = "done" => (lres.kind = "Ok" /\ lineno = Len(log_lines))

\* the first line had a tag and did not parse, a later line did
C18_Witness ==
    /\ lpc = "done"
    /\ lres.kind = "Ok"
    /\ lineno = 3
    /\ LineKind(log_lines[1]) # "none"
    /\ ~RecordOf(log_lines[1]).some
    /\ combined_data.icx_count + combined_data.icx_calc_count + combined_data.swap_count = 1

----------------------------------------------------------------------------
(* Functions called on their own: fold_addr_val_map and extract_all_dfi_addresses
   (src/dfiutils.rs), and the TxType conversions (src/models.rs) one after the
   other: From<&str>, to_string, from_display. *)

\* the pairs of a list to fold
MaxPairs == 3
\* the string literals of a haystack
MaxLits == 3

FoldLists == SeqsUpTo({<<"a">>, <<"b">>, X} \X {1, 2}, MaxPairs)

\* a 64-hex txid and a 38-character hex string that begins like an address
HexTxid == <<"8">> \o [i \in 1..63 |-> IF i % 2 = 0 THEN "0" ELSE "e"]
HexShort == <<"8">> \o [i \in 1..37 |-> IF i % 2 = 0 THEN "2" ELSE "e"]
\* a literal one character shorter than the shortest legacy address
TooShort == <<"7">> \o [i \in 1..(LegacyMin - 1) |-> "a"]

LitMenu == {AddrA, Addr("G"), AddrH, TooLong, TooShort, HexTxid, HexShort, <<"t", "o">>}

RECURSIVE Quoted(_)
\* the text of string literals, each between quotes, with a separator around each
Quoted(lits) == IF lits = << >> THEN <<Sep>> ELSE <<Sep, Head(lits)>> \o Quoted(Tail(lits))

Haystacks == {Quoted(lits) : lits \in SeqsUpTo(LitMenu, MaxLits)}

\* the type names of the node, the names of the variants, the short codes, and a
\* name that is none of them
TypeNames ==
    {FromArms[i][1] : i \in 1..Len(FromArms)}
       \cup {DisplayArms[i][1] : i \in 1..Len(DisplayArms)}
       \cup {DisplayArms[i][2] : i \in 1..Len(DisplayArms)}
       \cup {"zz"}

InitCall ==
    /\ \/ fname = "fold" /\ farg \in FoldLists
       \/ fname = "extract" /\ farg \in Haystacks
       \/ fname = "codec" /\ farg \in TypeNames
    /\ fret = << >>

CallFold ==
    /\ fname = "fold"
    /\ fret = << >>
    /\ fret' = <<fold_addr_val_map(farg)>>
    /\ UNCHANGED <<fname, farg>>
    /\ UNCHANGED <<cindexVars, gbuildVars, pathVars, walkVars, logVars>>

CallExtract ==
    /\ fname = "extract"
    /\ fret = << >>
    /\ fret' = <<extract_all_dfi_addresses(farg)>>
    /\ UNCHANGED <<fname, farg>>
    /\ UNCHANGED <<cindexVars, gbuildVars, pathVars, walkVars, logVars>>

\* TxType::from(name)
CallFrom ==
    /\ fname = "codec"
    /\ Len(fret) = 0
    /\ fret' = <<TxTypeFrom(farg)>>
    /\ UNCHANGED <<fname, farg>>
    /\ UNCHANGED <<cindexVars, gbuildVars, pathVars, walkVars, logVars>>

\* .to_string() of the TxType
CallToString ==
    /\ fname = "codec"
    /\ Len(fret) = 1
    /\ fret' = Append(fret, TxTypeToString(fret[1]))
    /\ UNCHANGED <<fname, farg>>
    /\ UNCHANGED <<cindexVars, gbuildVars, pathVars, walkVars, logVars>>

\* TxType::from_display of the short code
CallFromDisplay ==
    /\ fname = "codec"
    /\ Len(fret) = 2
    /\ fret' = Append(fret, TxTypeFromDisplay(fret[2]))
    /\ UNCHANGED <<fname, farg>>
    /\ UNCHANGED <<cindexVars, gbuildVars, pathVars, walkVars, logVars>>

InitCalls == IdleCindex /\ IdleGbuild /\ IdlePath /\ IdleWalk /\ IdleLog /\ InitCall

NextCalls ==
    \/ CallFold
    \/ CallExtract
    \/ CallFrom
    \/ CallToString
    \/ CallFromDisplay

SpecCalls == InitCalls /\ [][NextCalls]_vars

RECURSIVE SumOf(_, _, _)
\* the sum of the values of the entries of list[1..i] that have the address k
SumOf(list, i, k) ==
    IF i = 0 THEN 0
    ELSE SumOf(list, i - 1, k) + (IF list[i][1] = k THEN list[i][2] ELSE 0)

\* C21: fold_addr_val_map of a list of (address, value) pairs is a map whose keys are
\* exactly the addresses of the list and whose value for a key is the sum of the
\* values of all entries with that address.
C21_FoldSums ==
    (fname = "fold" /\ fret # << >>) =>
       /\ DOMAIN fret[1] = {farg[i][1] : i \in 1..Len(farg)}
       /\ \A k \in DOMAIN fret[1] : fret[1][k] = SumOf(farg, Len(farg), k)

\* a list with an address three times was folded
C21_Witness ==
    /\ fname = "fold"
    /\ fret # << >>
    /\ Len(farg) = 3
    /\ \A i \in 1..3 : farg[i][1] = <<"a">>
    /\ fret[1][<<"a">>] = 5

\* the variants of the enum but Other: Display has an arm for each
KnownVariants == {DisplayArms[i][1] : i \in 1..Len(DisplayArms)}

\* the names From<&str> has an arm for
LongNames == {FromArms[i][1] : i \in 1..Len(FromArms)}

QuotedStrings(runs) == {runs[i] : i \in 2..(Len(runs) - 1)}

\* d, 7 or 8 and then 25 to 34 base58 characters
LegacyShape(s) ==
    /\ Len(s) \in 26..35
    /\ s[1] \in {"d", "7", "8"}
    /\ \A i \in 2..Len(s) : s[i] \in Base58Chars

\* df1 and then 38 to 87 bech32 characters
Bech32Shape(s) ==
    /\ Len(s) \in 41..90
    /\ <<s[1], s[2], s[3]>> = <<"d", "f", "1">>
    /\ \A i \in 4..Len(s) : s[i] \in Bech32Chars

\* C25: extract_all_dfi_addresses returns the set of the double-quoted strings of the
\* haystack that are a legacy address or a bech32 address, without the quotes: one
\* that occurs several times is returned once, and quoted strings that are too long,
\* too short or hold other characters are not returned.
C25_ExtractsAddresses ==
    (fname = "extract" /\ fret # << >>) =>
       fret[1] = {s \in QuotedStrings(farg) : LegacyShape(s) \/ Bech32Shape(s)}

\* an address that occurs twice, next to a literal that is too long
C25_Witness ==
    /\ fname = "extract"
    /\ fret # << >>
    /\ farg = Quoted(<<AddrA, TooLong, AddrA>>)
    /\ fret[1] = {AddrA}

----------------------------------------------------------------------------
(* Further properties of the tx rows of cindex *)

\* the transaction a row was written for
TxOf(r) == TxFromJson(r.data)

\* the quoted strings of the message of a transaction that have the shape of an address
MsgAddresses(tx) ==
    IF tx.vm.some
    THEN {s \in MsgLiterals(tx.vm.v.msg) : LegacyShape(s) \/ Bech32Shape(s)}
    ELSE {}

\* the short codes of Coinbase, Unknown and Utxo; a row without a type has "_"
NoDvmTypes == {"cb", "_", "u"}

\* C23: in every tx row dvm_out is the set of the addresses extracted from vm.msg and
\* dvm_in is the set of those that are keys of the folded tx_in, so dvm_in is within
\* dvm_out and within the keys of tx_in; both are empty when the type after the
\* override is Coinbase, Unknown, Utxo or absent.
C23_DvmPartition ==
    \A r \in conn.txs \cup disk.txs :
       /\ Len(r.dvm_in.items) = Cardinality(Items(r.dvm_in))
       /\ Len(r.dvm_out.items) = Cardinality(Items(r.dvm_out))
       /\ Items(r.dvm_out) =
             (IF r.tx_type \in NoDvmTypes THEN {} ELSE MsgAddresses(TxOf(r)))
       /\ Items(r.dvm_in) = {a \in Items(r.dvm_out) : a \in Keys(r.tx_in)}
       /\ r.tx_type \in NoDvmTypes => Items(r.dvm_in) = {} /\ Items(r.dvm_out) = {}

\* committed: a row whose message names its input and another address, and a row of a
\* Coinbase type whose message names an address
C23_Witness ==
    /\ \E r \in disk.txs :
          /\ Cardinality(Items(r.dvm_out)) = 2
          /\ Cardinality(Items(r.dvm_in)) = 1
    /\ \E r \in disk.txs :
          /\ r.tx_type = "cb"
          /\ MsgAddresses(TxOf(r)) # {}
          /\ r.dvm_out.kind = "empty"

\* the short codes of PoolSwap and CompositeSwap
SwapCodes == {TxTypeToString(Known("PoolSwap")), TxTypeToString(Known("CompositeSwap"))}

\* the log has an entry with icx_data for the transaction of an ICXClaimDFCHTLC row
IcxLogged(r) ==
    /\ r.tx_type = TxTypeToString(Known("ICXClaimDFCHTLC"))
    /\ r.txid \in DOMAIN LogEntries
    /\ LogEntries[r.txid].icx_data.some

IcxColumnsFrom(r, d) ==
    /\ r.icx_data.kind = "IcxTxSet"
    /\ Len(r.icx_data.items) = 1
    /\ \A f \in {"order_tx", "claim_tx", "offer_tx", "dfchtlc_tx"} :
          r.icx_data.items[1][f] = d[f]
    /\ r.icx_addr = d.address
    /\ r.icx_btc_exp_amt = d.amount

IcxColumnsEmpty(r) ==
    /\ r.icx_data.kind = "empty"
    /\ r.icx_addr = EmptyStr
    /\ r.icx_btc_exp_amt = EmptyStr

SwapColumnsEmpty(r) == r.swap_from = "" /\ r.swap_to = "" /\ r.swap_amt = EmptyStr

\* C24: in every tx row swap_from, swap_to and swap_amt are non-empty only if the
\* stored type is PoolSwap or CompositeSwap; icx_data, icx_addr and icx_btc_exp_amt
\* hold the four tx ids, the address and the amount of the icx_data of the log entry
\* of the txid exactly when the stored type is ICXClaimDFCHTLC and the log has such
\* an entry, and are the empty string otherwise.
C24_SwapAndIcxColumns ==
    \A r \in conn.txs \cup disk.txs :
       /\ r.tx_type \notin SwapCodes => SwapColumnsEmpty(r)
       /\ IF IcxLogged(r)
          THEN IcxColumnsFrom(r, LogEntries[r.txid].icx_data.v)
          ELSE IcxColumnsEmpty(r)

\* committed: a pool swap with its three columns, an ICX claim with the columns of its
\* log entry, ICX claims without ICX line, and a logged transaction of another type
C24_Witness ==
    /\ \E r \in disk.txs :
          /\ r.tx_type \in SwapCodes
          /\ r.swap_from # "" /\ r.swap_to # "" /\ r.swap_amt # EmptyStr
    /\ \E r \in disk.txs : IcxLogged(r) /\ r.icx_addr # EmptyStr
    /\ \E r \in disk.txs :
          /\ r.tx_type = "icx-claim"
          /\ r.txid \in DOMAIN LogEntries
          /\ ~IcxLogged(r)
    /\ \E r \in disk.txs : r.tx_type = "icx-claim" /\ r.txid \notin DOMAIN LogEntries
    /\ \E r \in disk.txs :
          /\ r.tx_type \notin {"icx-claim"} \cup SwapCodes
          /\ r.txid \in DOMAIN LogEntries
          /\ LogEntries[r.txid].icx_data.some

\* the heights divisible by 10,000
OnCadence(h) == (h \div CommitEvery) * CommitEvery = h

\* the milestones that open or close the outer transaction
OpensTx == {"begin", "commit_and_begin"}
ClosesTx == {"commit", "return"}

\* the position of the last of them before position i, 0 when there is none
LastSync(i) ==
    IF \E j \in 1..(i - 1) : hist.events[j].e \in OpensTx \cup ClosesTx
    THEN CHOOSE j \in 1..(i - 1) :
            /\ hist.events[j].e \in OpensTx \cup ClosesTx
            /\ \A k \in (j + 1)..(i - 1) : hist.events[k].e \notin OpensTx \cup ClosesTx
    ELSE 0

\* a row write finds the transaction open, and a begin finds none open
OneOuterTx ==
    /\ \A i \in WriteAt : LastSync(i) # 0 /\ hist.events[LastSync(i)].e \in OpensTx
    /\ \A i \in EventAt("begin") :
          LastSync(i) # 0 => hist.events[LastSync(i)].e \in ClosesTx
    /\ pc \in {"loop", "fetch", "tx", "commit"} => inTx

\* the heights whose block row was written since the transaction was last opened or
\* closed
Uncommitted ==
    {hist.events[i].h : i \in {j \in EventAt("block") : j > LastSync(Len(hist.events) + 1)}}

\* they are consecutive heights, and one divisible by CommitEvery is the last of them
\* and still being processed: so they are CommitEvery heights at most
WindowBounded ==
    /\ \A h \in Uncommitted : h - 1 \in Uncommitted \/ \A k \in Uncommitted : h <= k
    /\ \A h \in Uncommitted :
          OnCadence(h) => /\ \A k \in Uncommitted : k <= h
                          /\ pc = "tx" \/ result.kind = "Err"
                          /\ height = h
    /\ Cardinality(Uncommitted) <= CommitEvery

\* this step logs a commit-and-begin
CommitAndBeginStep ==
    /\ hist'.events # hist.events
    /\ hist'.events # << >>
    /\ hist'.events[Len(hist'.events)].e = "commit_and_begin"

\* commit-and-begin is what ends the processing of a height divisible by CommitEvery,
\* and nothing else: it writes the connection's rows to the file and leaves the
\* transaction open
CadenceStep ==
    /\ CommitAndBeginStep <=> (pc = "tx" /\ height' = height + 1 /\ OnCadence(height))
    /\ CommitAndBeginStep => disk' = Commit(conn) /\ inTx /\ inTx'

\* C29: in the block loop of cindex one outer write transaction is open at every row
\* write and no second one is begun; commit-and-begin happens exactly after the
\* processing of each height divisible by 10,000; so the heights processed since the
\* last commit are never more than 10,000.
C29_CommitCadence == [](OneOuterTx /\ WindowBounded) /\ [][CadenceStep]_vars

\* the run has committed at height 10,000 between the rows of the height before and
\* the rows of the height after
C29_Witness ==
    /\ \E i \in EventAt("commit_and_begin") :
          /\ hist.events[i].h = CommitEvery
          /\ \E j \in WriteAt : j < i /\ hist.events[j].h = CommitEvery - 1
          /\ \E j \in WriteAt : j > i /\ hist.events[j].h = CommitEvery + 1
    /\ Uncommitted = {CommitEvery + 1}

----------------------------------------------------------------------------
(* Further properties of the walk of gwalk *)

\* C26: a target of an outgoing edge is pushed to next_level only if it is not in
\* visited at that moment (visited holds the node being expanded from line 147 on, and
\* does not change while the edges of one node are iterated).
C26_Claimed ==
    [][\A i \in (Len(next_level) + 1)..Len(next_level') :
          next_level'[i] \notin visited']_vars

\* the only node of level 0 has been expanded and next_level holds a visited node
C26_Witness ==
    /\ wpc = "node"
    /\ level = 0
    /\ wpos = 2
    /\ expanded = current_level
    /\ \E i \in 1..Len(next_level) : next_level[i] \in visited

\* C27: over the whole walk the outgoing edges of a node are iterated at most once,
\* whatever the levels and however often the node stands in the queue of a level; the
\* nodes expanded are the visited ones.
C27_ExpandedOnce ==
    /\ \A i, j \in 1..Len(expanded) : expanded[i] = expanded[j] => i = j
    /\ RangeOf(expanded) = visited

\* the walk ended on a level that held only its center again, come back over a cycle,
\* after a level that held a node twice, for two parallel edges
C27_Witness ==
    /\ wpc = "done"
    /\ wres.kind = "Ok"
    /\ level = 3
    /\ Len(expanded) = 3
    /\ current_level = <<expanded[1]>>
    /\ \E i, j \in 1..Len(wg.edges) :
          /\ i # j
          /\ wg.edges[i].source = expanded[1] /\ wg.edges[j].source = expanded[1]
          /\ wg.edges[i].target = expanded[2] /\ wg.edges[j].target = expanded[2]

RECURSIVE ProcessedFrom(_)
\* the processed edges: the edges leaving the expanded nodes, once for each expansion,
\* whose target is not in graph_ignore_addr_list
ProcessedFrom(i) ==
    IF i = 0 THEN << >>
    ELSE ProcessedFrom(i - 1) \o
         SelectSeq(Outgoing(wg, expanded[i]),
                   LAMBDA x : wg.nodes[x.target + 1] \notin graph_ignore_addr_list)
Processed == ProcessedFrom(Len(expanded))

\* the finest scale of the amounts of WalkTxs
AmountScale == 2

\* a decimal in units of 10^-AmountScale
Units(d) == d.int * Pow10(AmountScale - d.scale)

\* what the edge x adds to total_btc_swaps and to total_icx
BtcDue(x) ==
    IF wtxs[x.weight].tx_type = "ps" /\ wtxs[x.weight].swap_from = "btc"
    THEN Units(BigDecimalFromStr(wtxs[x.weight].swap_amt).v) ELSE 0
IcxDue(x) ==
    IF /\ wtxs[x.weight].tx_type = "icx-claim"
       /\ BigDecimalFromStr(wtxs[x.weight].icx_btc_exp_amt).ok
    THEN Units(BigDecimalFromStr(wtxs[x.weight].icx_btc_exp_amt).v) ELSE 0

RECURSIVE SumBtcDue(_, _)
SumBtcDue(edges, k) == IF k = 0 THEN 0 ELSE SumBtcDue(edges, k - 1) + BtcDue(edges[k])
RECURSIVE SumIcxDue(_, _)
SumIcxDue(edges, k) == IF k = 0 THEN 0 ELSE SumIcxDue(edges, k - 1) + IcxDue(edges[k])

UnparseableIcx(x) ==
    /\ wtxs[x.weight].tx_type = "icx-claim"
    /\ ~BigDecimalFromStr(wtxs[x.weight].icx_btc_exp_amt).ok

\* C28: at the end of a walk total_btc_swaps is the sum of swap_amt over the processed
\* edges whose tx is a PoolSwap from "btc" and total_icx the sum of the parseable
\* icx_btc_exp_amt over the processed edges whose tx is an ICXClaimDFCHTLC, each edge
\* counted once; an unparseable icx_btc_exp_amt adds nothing and does not end the walk.
C28_TotalsAreSums ==
    wpc = "done" =>
       /\ Units(total_btc_swaps) = SumBtcDue(Processed, Len(Processed))
       /\ Units(total_icx) = SumIcxDue(Processed, Len(Processed))
       /\ wres.kind = "Ok" \/ wres.err \in {"interrupted", "node_index_map"}

\* a walk ended well that added up two btc swaps and two ICX claims, passed a pool swap
\* from dfi and an ICX claim whose amount does not parse, and went on behind that one
C28_Witness ==
    /\ wpc = "done"
    /\ wres.kind = "Ok"
    /\ Units(total_btc_swaps) = 325
    /\ Units(total_icx) = 350
    /\ \E k \in 1..Len(Processed) : wtxs[Processed[k].weight].swap_from = "dfi"
    /\ \E k \in 1..Len(Processed) :
          /\ UnparseableIcx(Processed[k])
          /\ Processed[k].target \in visited

----------------------------------------------------------------------------
(* Further properties of the graph of gbuild *)

\* the addresses of a row, on either side
AddrsOfRow(r) == RowAddrs(r.tx_in, r.dvm_in) \cup RowAddrs(r.tx_out, r.dvm_out)

\* the addresses of the first n rows
SeenUpTo(n) == UNION {AddrsOfRow(rows[i]) : i \in 1..n}

\* the node ids of a graph
NodeIds(gr) == 0..(Len(gr.nodes) - 1)

\* m maps the addresses of the first n rows one to one onto the node ids of gr, each
\* to the node it labels; no label stands twice; the edges join mapped node ids
MapMatchesGraph(m, gr, n) ==
    /\ DOMAIN m = SeenUpTo(n)
    /\ \A a, b \in DOMAIN m : m[a] = m[b] => a = b
    /\ {m[a] : a \in DOMAIN m} = NodeIds(gr)
    /\ \A a \in DOMAIN m : gr.nodes[m[a] + 1] = a
    /\ \A i, j \in 1..Len(gr.nodes) : gr.nodes[i] = gr.nodes[j] => i = j
    /\ \A k \in 1..Len(gr.edges) :
          /\ gr.edges[k].source \in {m[a] : a \in DOMAIN m}
          /\ gr.edges[k].target \in {m[a] : a \in DOMAIN m}

\* a step that takes a row leaves the map and the graph matching
AfterRow == txiter' # txiter => MapMatchesGraph(node_index_map', g', txiter')

\* a step that writes the two files writes a matching map and graph
AtDump ==
    files' # files =>
       files'.written /\ MapMatchesGraph(files'.meta, files'.data, files'.txiter)

\* C30: after every row taken by the callback of gbuild, and so in every dump made on
\* SIGUSR1 or at the end, node_index_map is a bijection between the addresses seen so
\* far and the node ids of the graph, the node of an address is labelled with it, no
\* address has two nodes, and every edge joins node ids that node_index_map holds.
C30_NodeIndexBijection == [][AfterRow /\ AtDump]_vars

\* a dump on SIGUSR1 after two rows that share an address, a third row to come
C30_Witness ==
    /\ gpc = "scan"
    /\ txiter = 2
    /\ Len(rows) = 3
    /\ files.written
    /\ files.txiter = 2
    /\ files.data.edges # << >>
    /\ Cardinality(DOMAIN files.meta) >= 3
    /\ \E a \in DOMAIN files.meta : a \in AddrsOfRow(rows[1]) \cap AddrsOfRow(rows[2])

====
